------------------------ MODULE IngestionAlertProofs ------------------------
(***************************************************************************)
(* One incident, one row: the life cycle of alerts, for every set of       *)
(* requests, readings and ids.  Every write of an alert has a few things   *)
(* in common (Allowed); they are all that the invariant needs of it.       *)
(***************************************************************************)
EXTENDS IngestionProofs, FiniteSetTheorems

\* Writer w may write row as alert i: nobody else has the row locked, it goes
\* on with the incident w sees there, and if it is open it is the only open one
\* of its incident that w sees, or that somebody else has not committed.
Allowed(w, i, row) ==
    /\ newAlerts' = [newAlerts EXCEPT ![w][i] = row]
    /\ UNCHANGED alerts
    /\ \A q \in Writers \ {w} : newAlerts[q][i] = None
    /\ AlertsSeenBy(w)[i] # None => Continues(AlertsSeenBy(w)[i], row)
    /\ \A b \in Batteries, t \in AlertTypes : IsOpen(row, b, t) =>
          /\ \A j \in AlertIds : IsOpen(AlertsSeenBy(w)[j], b, t) => j = i
          /\ \A q \in Writers \ {w}, j \in AlertIds : ~ IsOpen(newAlerts[q][j], b, t)

LEMMA ContinuesSelf == ASSUME NEW row, row # None PROVE Continues(row, row)
BY DEF Continues

LEMMA ContinuesTwice ==
    ASSUME NEW x, NEW y, NEW z, Continues(x, y), Continues(y, z)
    PROVE  Continues(x, z)
BY DEF Continues

\* Every alert that a writer sees continues the committed one.
LEMMA SeenContinues ==
    ASSUME PendingContinues, NEW w \in Writers, NEW i \in AlertIds, alerts[i] # None
    PROVE  Continues(alerts[i], AlertsSeenBy(w)[i])
BY ContinuesSelf DEF PendingContinues, AlertsSeenBy

LEMMA SeenRow ==
    ASSUME TypeOK, NEW w \in Writers, NEW i \in AlertIds, AlertsSeenBy(w)[i] # None
    PROVE  AlertsSeenBy(w)[i] \in AlertRow
BY SeenType

\* The create-or-retain statement, having waited, writes what is allowed.
LEMMA CreateAllowed ==
    ASSUME TypeOK, AlertInv, NEW w \in Writers, NEW b \in Batteries, NEW t \in AlertTypes,
           NEW severity \in Severities, NEW at \in Int,
           CreateOrRetainAlert(w, b, t, severity, at), UNCHANGED alerts
    PROVE  \E i \in AlertIds, row \in AlertRow : Allowed(w, i, row)
<1>1. \A q \in Writers \ {w}, j \in AlertIds :
         newAlerts[q][j] # None => ~ IsOpen(newAlerts[q][j], b, t) /\ ~ IsOpen(alerts[j], b, t)
  BY DEF CreateOrRetainAlert, IncidentHolders
<1>2. \A q \in Writers \ {w}, j \in AlertIds : ~ IsOpen(newAlerts[q][j], b, t)
  BY <1>1 DEF IsOpen
<1>3. ASSUME NEW i \in AlertIds, IsOpen(AlertsSeenBy(w)[i], b, t),
             newAlerts' = [newAlerts EXCEPT ![w][i] = Retained(AlertsSeenBy(w)[i], severity)]
      PROVE  \E row \in AlertRow : Allowed(w, i, row)
  <2> DEFINE row == Retained(AlertsSeenBy(w)[i], severity)
  <2>1. AlertsSeenBy(w)[i] \in AlertRow
    BY <1>3, SeenRow DEF IsOpen
  <2>2. /\ row \in AlertRow
        /\ row.battery_id = AlertsSeenBy(w)[i].battery_id
        /\ row.alert_type = AlertsSeenBy(w)[i].alert_type
        /\ row.timestamp = AlertsSeenBy(w)[i].timestamp
        /\ row.resolved_at = AlertsSeenBy(w)[i].resolved_at
    BY <2>1, RetainedRow
  <2>3. \A q \in Writers \ {w} : newAlerts[q][i] = None
    <3> SUFFICES ASSUME NEW q \in Writers \ {w}, newAlerts[q][i] # None PROVE FALSE
      OBVIOUS
    <3>1. newAlerts[w][i] = None
      BY DEF AlertInv, AlertLocksExclusive
    <3>2. IsOpen(alerts[i], b, t)
      BY <1>3, <3>1 DEF AlertsSeenBy
    <3> QED BY <1>1, <3>2
  <2>4. row # None
    BY <2>2, IngestionAssumption DEF IngestionAssumption
  <2>5. Continues(AlertsSeenBy(w)[i], row)
    BY <1>3, <2>2, <2>4 DEF Continues, IsOpen
  <2>6. \A c \in Batteries, u \in AlertTypes : IsOpen(row, c, u) => c = b /\ u = t
    BY <1>3, <2>2 DEF IsOpen
  <2>7. \A j \in AlertIds : IsOpen(AlertsSeenBy(w)[j], b, t) => j = i
    BY <1>3 DEF AlertInv, OneOpenSeen
  <2> HIDE DEF row
  <2>8. newAlerts' = [newAlerts EXCEPT ![w][i] = row]
    BY <1>3 DEF row
  <2>9. Allowed(w, i, row)
    BY <1>2, <2>3, <2>5, <2>6, <2>7, <2>8 DEF Allowed
  <2> QED BY <2>2, <2>9
<1>4. ASSUME NEW i \in AlertIds, FreshId(i),
             \A j \in AlertIds : ~ IsOpen(AlertsSeenBy(w)[j], b, t),
             newAlerts' = [newAlerts EXCEPT ![w][i] = NewAlert(b, t, severity, at)]
      PROVE  \E row \in AlertRow : Allowed(w, i, row)
  <2>1. /\ NewAlert(b, t, severity, at) \in AlertRow
        /\ NewAlert(b, t, severity, at).battery_id = b
        /\ NewAlert(b, t, severity, at).alert_type = t
    BY NewRow
  <2>2. \A c \in Batteries, u \in AlertTypes :
           IsOpen(NewAlert(b, t, severity, at), c, u) => c = b /\ u = t
    BY <2>1 DEF IsOpen
  <2>3. AlertsSeenBy(w)[i] = None /\ \A q \in Writers : newAlerts[q][i] = None
    BY <1>4 DEF FreshId, UnusedId, AlertsSeenBy
  <2>4. Allowed(w, i, NewAlert(b, t, severity, at))
    BY <1>2, <1>4, <2>2, <2>3 DEF Allowed
  <2> QED BY <2>1, <2>4
<1> QED BY <1>3, <1>4 DEF CreateOrRetainAlert

\* An update that sets resolved_at, with the row to itself, is allowed.
LEMMA ResolutionAllowed ==
    ASSUME TypeOK, NEW w \in Writers, NEW i \in AlertIds, NEW at \in Int,
           AlertsSeenBy(w)[i] # None, AlertHolders(w, i) = {},
           newAlerts' = [newAlerts EXCEPT ![w][i] = Resolved(AlertsSeenBy(w)[i], at)],
           UNCHANGED alerts
    PROVE  \E row \in AlertRow : Allowed(w, i, row)
<1> DEFINE row == Resolved(AlertsSeenBy(w)[i], at)
<1>1. AlertsSeenBy(w)[i] \in AlertRow
  BY SeenRow
<1>2. /\ row \in AlertRow
      /\ row.battery_id = AlertsSeenBy(w)[i].battery_id
      /\ row.alert_type = AlertsSeenBy(w)[i].alert_type
      /\ row.timestamp = AlertsSeenBy(w)[i].timestamp
      /\ row.severity = AlertsSeenBy(w)[i].severity
      /\ row.resolved_at = at
  BY <1>1, ResolvedRow
<1>3. row # None /\ at # None
  BY <1>2, IngestionAssumption DEF IngestionAssumption
<1>4. Continues(AlertsSeenBy(w)[i], row)
  BY <1>2, <1>3 DEF Continues
<1>5. \A b \in Batteries, t \in AlertTypes : ~ IsOpen(row, b, t)
  BY <1>2, <1>3 DEF IsOpen
<1>6. \A q \in Writers \ {w} : newAlerts[q][i] = None
  BY DEF AlertHolders
<1> HIDE DEF row
<1>7. newAlerts' = [newAlerts EXCEPT ![w][i] = row]
  BY DEF row
<1>8. Allowed(w, i, row)
  BY <1>4, <1>5, <1>6, <1>7 DEF Allowed
<1> QED BY <1>2, <1>8

-----------------------------------------------------------------------------
(***************************************************************************)
(* The four ways the alerts change: a write, a commit, a rollback and the  *)
(* operator's resolution.  Each keeps the invariant and continues the      *)
(* incidents on record.                                                    *)
(***************************************************************************)

RecordContinues == \A i \in AlertIds : alerts[i] # None => Continues(alerts[i], alerts'[i])

LEMMA SameContinues == ASSUME UNCHANGED alerts PROVE RecordContinues
BY ContinuesSelf DEF RecordContinues

LEMMA WriteKeeps ==
    ASSUME TypeOK, AlertInv, NEW w \in Writers, NEW i \in AlertIds, NEW row \in AlertRow,
           Allowed(w, i, row)
    PROVE  AlertInv'
<1>1. \A q \in Writers, j \in AlertIds :
         newAlerts'[q][j] = IF q = w /\ j = i THEN row ELSE newAlerts[q][j]
  BY DEF Allowed, TypeOK
<1>2. row # None
  BY IngestionAssumption DEF IngestionAssumption
<1>3. \A q \in Writers, j \in AlertIds :
         AlertsSeenBy(q)'[j] = IF q = w /\ j = i THEN row ELSE AlertsSeenBy(q)[j]
  BY <1>1, <1>2 DEF AlertsSeenBy, Allowed
<1>4. AlertLocksExclusive'
  BY <1>1 DEF AlertLocksExclusive, AlertInv, Allowed
<1>5. OneOpenAlert'
  BY DEF AlertInv, OneOpenAlert, Allowed, IsOpen
<1>6. OneOpenSeen'
  <2> SUFFICES ASSUME NEW q \in Writers, NEW j \in AlertIds, NEW k \in AlertIds,
                      NEW b \in Batteries, NEW t \in AlertTypes,
                      IsOpen(AlertsSeenBy(q)'[j], b, t), IsOpen(AlertsSeenBy(q)'[k], b, t)
               PROVE  j = k
    BY DEF OneOpenSeen, IsOpen
  <2>1. CASE q # w
    BY <1>3, <2>1 DEF AlertInv, OneOpenSeen
  <2>2. CASE q = w
    BY <1>3, <2>2 DEF AlertInv, OneOpenSeen, Allowed
  <2> QED BY <2>1, <2>2
<1>7. OneOpener'
  <2> SUFFICES ASSUME NEW q \in Writers, NEW r \in Writers, NEW j \in AlertIds,
                      NEW k \in AlertIds, NEW b \in Batteries, NEW t \in AlertTypes,
                      IsOpen(newAlerts'[q][j], b, t), IsOpen(newAlerts'[r][k], b, t)
               PROVE  q = r
    BY DEF OneOpener, IsOpen
  <2>1. CASE q = w /\ j = i
    BY <1>1, <2>1 DEF Allowed
  <2>2. CASE r = w /\ k = i
    BY <1>1, <2>2 DEF Allowed
  <2>3. CASE ~ (q = w /\ j = i) /\ ~ (r = w /\ k = i)
    BY <1>1, <2>3 DEF AlertInv, OneOpener
  <2> QED BY <2>1, <2>2, <2>3
<1>8. PendingContinues'
  <2> SUFFICES ASSUME NEW q \in Writers, NEW j \in AlertIds, newAlerts'[q][j] # None,
                      alerts[j] # None
               PROVE  Continues(alerts[j], newAlerts'[q][j])
    BY DEF PendingContinues, Allowed, Continues
  <2>1. CASE q = w /\ j = i
    <3>1. Continues(alerts[i], AlertsSeenBy(w)[i])
      BY <2>1, SeenContinues DEF AlertInv
    <3>2. Continues(AlertsSeenBy(w)[i], row)
      BY <3>1 DEF Allowed, Continues
    <3>3. Continues(alerts[i], row)
      BY <3>1, <3>2, ContinuesTwice
    <3> QED BY <1>1, <2>1, <3>3
  <2>2. CASE ~ (q = w /\ j = i)
    BY <1>1, <2>2 DEF AlertInv, PendingContinues
  <2> QED BY <2>1, <2>2
<1> QED BY <1>4, <1>5, <1>6, <1>7, <1>8 DEF AlertInv

\* What one writer commits agrees with everything the others have pending.
LEMMA CommitKeeps ==
    ASSUME TypeOK, AlertInv, NEW w \in Writers, alerts' = AlertsSeenBy(w),
           newAlerts' = [newAlerts EXCEPT ![w] = NoAlerts]
    PROVE  AlertInv' /\ RecordContinues
<1>1. \A q \in Writers, i \in AlertIds :
         newAlerts'[q][i] = IF q = w THEN None ELSE newAlerts[q][i]
  BY DEF TypeOK, NoAlerts
<1>2. \A i \in AlertIds :
         alerts'[i] = IF newAlerts[w][i] # None THEN newAlerts[w][i] ELSE alerts[i]
  BY DEF AlertsSeenBy
<1>3. \A q \in Writers, i \in AlertIds :
         AlertsSeenBy(q)'[i] = IF newAlerts'[q][i] # None THEN newAlerts'[q][i] ELSE alerts'[i]
  BY DEF AlertsSeenBy
<1>4. AlertLocksExclusive' /\ OneOpener'
  BY <1>1 DEF AlertLocksExclusive, OneOpener, AlertInv, IsOpen
<1>5. OneOpenAlert'
  BY DEF OneOpenAlert, OneOpenSeen, AlertInv, IsOpen
<1>6. OneOpenSeen'
  <2> SUFFICES ASSUME NEW q \in Writers, NEW i \in AlertIds, NEW j \in AlertIds,
                      NEW b \in Batteries, NEW t \in AlertTypes,
                      IsOpen(AlertsSeenBy(q)'[i], b, t), IsOpen(AlertsSeenBy(q)'[j], b, t)
               PROVE  i = j
    BY DEF OneOpenSeen, IsOpen
  <2>1. \A k \in AlertIds : newAlerts'[q][k] # None => newAlerts[q][k] = AlertsSeenBy(q)'[k]
    BY <1>1, <1>3
  <2>2. \A k \in AlertIds : newAlerts'[q][k] = None => AlertsSeenBy(q)'[k] = AlertsSeenBy(w)[k]
    BY <1>3
  <2>3. ASSUME NEW k \in AlertIds, NEW l \in AlertIds,
               newAlerts'[q][k] # None, newAlerts'[q][l] = None,
               IsOpen(AlertsSeenBy(q)'[k], b, t), IsOpen(AlertsSeenBy(q)'[l], b, t)
        PROVE  k = l
    <3>1. q # w /\ newAlerts[q][l] = None
      BY <1>1, <2>3
    <3>2. IsOpen(newAlerts[q][k], b, t) /\ IsOpen(AlertsSeenBy(q)[k], b, t)
      BY <2>1, <2>3 DEF AlertsSeenBy, IsOpen
    <3>3. newAlerts[w][l] = None
      <4> SUFFICES ASSUME newAlerts[w][l] # None PROVE FALSE
        OBVIOUS
      <4>1. IsOpen(newAlerts[w][l], b, t)
        BY <2>2, <2>3 DEF AlertsSeenBy
      <4> QED BY <3>1, <3>2, <4>1 DEF AlertInv, OneOpener
    <3>4. IsOpen(AlertsSeenBy(q)[l], b, t)
      BY <2>2, <2>3, <3>1, <3>3 DEF AlertsSeenBy
    <3> QED BY <3>2, <3>4 DEF AlertInv, OneOpenSeen
  <2>4. CASE newAlerts'[q][i] # None /\ newAlerts'[q][j] # None
    <3>1. IsOpen(AlertsSeenBy(q)[i], b, t) /\ IsOpen(AlertsSeenBy(q)[j], b, t)
      BY <2>1, <2>4 DEF AlertsSeenBy, IsOpen
    <3> QED BY <3>1 DEF AlertInv, OneOpenSeen
  <2>5. CASE newAlerts'[q][i] = None /\ newAlerts'[q][j] = None
    BY <2>2, <2>5 DEF AlertInv, OneOpenSeen
  <2> QED BY <2>3, <2>4, <2>5
<1>7. PendingContinues'
  <2> SUFFICES ASSUME NEW q \in Writers, NEW i \in AlertIds, newAlerts'[q][i] # None,
                      alerts'[i] # None
               PROVE  Continues(alerts'[i], newAlerts'[q][i])
    BY DEF PendingContinues, Continues
  <2>1. q # w /\ newAlerts'[q][i] = newAlerts[q][i]
    BY <1>1
  <2>2. newAlerts[w][i] = None
    BY <2>1 DEF AlertInv, AlertLocksExclusive
  <2>3. alerts'[i] = alerts[i]
    BY <1>2, <2>2
  <2> QED BY <2>1, <2>3 DEF AlertInv, PendingContinues
<1>8. RecordContinues
  BY SeenContinues DEF AlertInv, RecordContinues
<1> QED BY <1>4, <1>5, <1>6, <1>7, <1>8 DEF AlertInv

\* A rollback only takes pending rows away.
LEMMA RollbackKeeps ==
    ASSUME TypeOK, AlertInv, NEW S \in SUBSET Writers, UNCHANGED alerts,
           newAlerts' \in [Writers -> [AlertIds -> AlertRow \cup {None}]],
           \A q \in Writers, i \in AlertIds :
              newAlerts'[q][i] = IF q \in S THEN None ELSE newAlerts[q][i]
    PROVE  AlertInv'
<1>1. AlertLocksExclusive' /\ OneOpener' /\ OneOpenAlert'
  BY DEF AlertLocksExclusive, OneOpener, OneOpenAlert, AlertInv, IsOpen
<1>2. OneOpenSeen'
  <2> SUFFICES ASSUME NEW q \in Writers, NEW i \in AlertIds, NEW j \in AlertIds,
                      NEW b \in Batteries, NEW t \in AlertTypes,
                      IsOpen(AlertsSeenBy(q)'[i], b, t), IsOpen(AlertsSeenBy(q)'[j], b, t)
               PROVE  i = j
    BY DEF OneOpenSeen, IsOpen
  <2>1. CASE q \in S
    <3>1. AlertsSeenBy(q)'[i] = alerts[i] /\ AlertsSeenBy(q)'[j] = alerts[j]
      BY <2>1 DEF AlertsSeenBy
    <3> QED BY <3>1 DEF AlertInv, OneOpenAlert
  <2>2. CASE q \notin S
    <3>1. AlertsSeenBy(q)'[i] = AlertsSeenBy(q)[i] /\ AlertsSeenBy(q)'[j] = AlertsSeenBy(q)[j]
      BY <2>2 DEF AlertsSeenBy
    <3> QED BY <3>1 DEF AlertInv, OneOpenSeen
  <2> QED BY <2>1, <2>2
<1>3. PendingContinues'
  BY DEF AlertInv, PendingContinues, Continues
<1> QED BY <1>1, <1>2, <1>3 DEF AlertInv

\* The operator closes an alert that no transaction has touched.
LEMMA ResolveKeeps ==
    ASSUME TypeOK, LocalsOK, AlertInv, ResolveAlert
    PROVE  AlertInv' /\ RecordContinues
<1> USE DEF ResolveAlert, pending
<1>1. opFound \in AlertIds /\ alerts[opFound] \in AlertRow /\ opNow \in Int
  BY DEF TypeOK, LocalsOK, FoundExists
<1> DEFINE row == Resolved(alerts[opFound], opNow)
<1>2. /\ row \in AlertRow
      /\ row.battery_id = alerts[opFound].battery_id
      /\ row.alert_type = alerts[opFound].alert_type
      /\ row.timestamp = alerts[opFound].timestamp
      /\ row.severity = alerts[opFound].severity
      /\ row.resolved_at # None
  BY <1>1, ResolvedRow, IngestionAssumption DEF IngestionAssumption
<1>3. row # None
  BY <1>2, IngestionAssumption DEF IngestionAssumption
<1>4. \A b \in Batteries, t \in AlertTypes : ~ IsOpen(row, b, t)
  BY <1>2 DEF IsOpen
<1>5. Continues(alerts[opFound], row)
  BY <1>2, <1>3 DEF Continues
<1> HIDE DEF row
<1>6. \A i \in AlertIds : alerts'[i] = IF i = opFound THEN row ELSE alerts[i]
  BY DEF row, TypeOK
<1>7. \A q \in Writers : newAlerts[q][opFound] = None
  BY IngestionAssumption DEF AlertHolders, IngestionAssumption
<1>8. \A q \in Writers, i \in AlertIds :
         AlertsSeenBy(q)'[i] = IF i = opFound THEN row ELSE AlertsSeenBy(q)[i]
  BY <1>6, <1>7 DEF AlertsSeenBy
<1>9. AlertLocksExclusive' /\ OneOpener'
  BY DEF AlertLocksExclusive, OneOpener, AlertInv, IsOpen
<1>10. OneOpenAlert'
  <2> SUFFICES ASSUME NEW i \in AlertIds, NEW j \in AlertIds, NEW b \in Batteries,
                      NEW t \in AlertTypes, IsOpen(alerts'[i], b, t), IsOpen(alerts'[j], b, t)
               PROVE  i = j
    BY DEF OneOpenAlert, IsOpen
  <2> QED BY <1>4, <1>6 DEF AlertInv, OneOpenAlert
<1>11. OneOpenSeen'
  <2> SUFFICES ASSUME NEW q \in Writers, NEW i \in AlertIds, NEW j \in AlertIds,
                      NEW b \in Batteries, NEW t \in AlertTypes,
                      IsOpen(AlertsSeenBy(q)'[i], b, t), IsOpen(AlertsSeenBy(q)'[j], b, t)
               PROVE  i = j
    BY DEF OneOpenSeen, IsOpen
  <2> QED BY <1>4, <1>8 DEF AlertInv, OneOpenSeen
<1>12. PendingContinues'
  <2> SUFFICES ASSUME NEW q \in Writers, NEW i \in AlertIds, newAlerts[q][i] # None,
                      alerts'[i] # None
               PROVE  Continues(alerts'[i], newAlerts[q][i])
    BY DEF PendingContinues, Continues
  <2> QED BY <1>6, <1>7 DEF AlertInv, PendingContinues
<1>13. RecordContinues
  BY <1>5, <1>6, ContinuesSelf DEF RecordContinues
<1> QED BY <1>9, <1>10, <1>11, <1>12, <1>13 DEF AlertInv

LEMMA NothingKeeps ==
    ASSUME AlertInv, UNCHANGED <<alerts, newAlerts>>
    PROVE  AlertInv' /\ RecordContinues
<1>1. \A w : AlertsSeenBy(w)' = AlertsSeenBy(w)
  BY SeenSame
<1>2. AlertInv'
  BY <1>1 DEF AlertInv, AlertLocksExclusive, OneOpenAlert, OneOpenSeen, OneOpener,
     PendingContinues, IsOpen, Continues
<1> QED BY <1>2, SameContinues

-----------------------------------------------------------------------------
LEMMA EvaluateKeeps ==
    ASSUME TypeOK, LocalsOK, AlertInv, NEW p \in Requests, EvaluateRules(p)
    PROVE  AlertInv' /\ RecordContinues
<1> USE DEF EvaluateRules, tables
<1>1. PICK c \in todo[p] :
        \/ found[p] = None /\ RaiseAlert(p, c)
        \/ found[p] = None /\ SkipRule(p, c)
        \/ found[p] = None /\ ReadOpenAlert(p, c)
        \/ found[p] # None /\ WriteResolution(p, c)
  OBVIOUS
<1>2. p \in Writers
  BY DEF Writers
<1>3. c[1] \in Batteries /\ c[2] \in AlertTypes /\ latest[p][c[1]].timestamp \in Int
  BY CheckFacts
<1>4. CASE RaiseAlert(p, c)
  <2>1. PICK severity \in Severities :
           CreateOrRetainAlert(p, c[1], c[2], severity, latest[p][c[1]].timestamp)
    BY <1>4 DEF RaiseAlert
  <2>2. PICK i \in AlertIds, row \in AlertRow : Allowed(p, i, row)
    BY <1>2, <1>3, <2>1, CreateAllowed
  <2> QED BY <1>2, <2>2, WriteKeeps, SameContinues
<1>5. CASE SkipRule(p, c) \/ ReadOpenAlert(p, c)
  BY <1>5, NothingKeeps DEF SkipRule, ReadOpenAlert
<1>6. CASE found[p] # None /\ WriteResolution(p, c)
  <2>1. found[p] \in AlertIds
    BY <1>6 DEF TypeOK
  <2>2. AlertsSeenBy(p)[found[p]] # None
    BY <1>6 DEF LocalsOK, FoundExists
  <2>3. PICK row \in AlertRow : Allowed(p, found[p], row)
    BY <1>2, <1>3, <1>6, <2>1, <2>2, ResolutionAllowed DEF WriteResolution
  <2> QED BY <1>2, <2>1, <2>3, WriteKeeps, SameContinues
<1> QED BY <1>1, <1>4, <1>5, <1>6

LEMMA RequestKeeps ==
    ASSUME TypeOK, LocalsOK, AlertInv, NEW p \in Requests, Arrive(p) \/ Ingest(p) \/ Fail(p)
    PROVE  AlertInv' /\ RecordContinues
<1>1. CASE Arrive(p) \/ Validate(p) \/ InsertTelemetry(p) \/ UpsertCurrentState(p)
           \/ RulesEvaluated(p)
  <2>1. UNCHANGED <<alerts, newAlerts>>
    BY <1>1 DEF Arrive, Validate, InsertTelemetry, UpsertCurrentState, RulesEvaluated, tables,
       pending
  <2> QED BY <2>1, NothingKeeps
<1>2. CASE CommitData(p) \/ Commit(p)
  <2>1. p \in Writers /\ alerts' = AlertsSeenBy(p)
        /\ newAlerts' = [newAlerts EXCEPT ![p] = NoAlerts]
    BY <1>2 DEF CommitData, Commit, CommitTransaction, Writers
  <2> QED BY <2>1, CommitKeeps
<1>3. CASE Fail(p)
  <2>1. /\ UNCHANGED alerts
        /\ newAlerts' = [newAlerts EXCEPT ![p] = NoAlerts]
    BY <1>3 DEF Fail, tables
  <2>2. \A q \in Writers, i \in AlertIds :
           newAlerts'[q][i] = IF q \in {p} THEN None ELSE newAlerts[q][i]
    BY <2>1 DEF TypeOK, NoAlerts
  <2>3. newAlerts' \in [Writers -> [AlertIds -> AlertRow \cup {None}]]
    BY <2>1 DEF TypeOK, NoAlerts
  <2>4. {p} \in SUBSET Writers
    BY DEF Writers
  <2> QED BY <2>1, <2>2, <2>3, <2>4, RollbackKeeps, SameContinues
<1> QED BY <1>1, <1>2, <1>3, EvaluateKeeps DEF Ingest

LEMMA DetectKeeps ==
    ASSUME TypeOK, LocalsOK, AlertInv, Detect \/ DetectorFail
    PROVE  AlertInv' /\ RecordContinues
<1>1. Detector \in Writers
  BY DEF Writers
<1>2. CASE MarkStaleBatteriesOffline \/ ReadClock
  BY <1>2, NothingKeeps DEF MarkStaleBatteriesOffline, ReadClock, tables, pending
<1>3. CASE RaiseOffline
  <2>1. PICK b \in detTodo :
           CreateOrRetainAlert(Detector, b, "DEVICE_OFFLINE", "WARNING", detNow)
    BY <1>3 DEF RaiseOffline
  <2>2. /\ b \in Batteries /\ "DEVICE_OFFLINE" \in AlertTypes /\ "WARNING" \in Severities
        /\ detNow \in Int /\ UNCHANGED alerts
    BY <1>3 DEF RaiseOffline, tables, TypeOK, AlertTypes, Severities
  <2>3. PICK i \in AlertIds, row \in AlertRow : Allowed(Detector, i, row)
    BY <1>1, <2>1, <2>2, CreateAllowed
  <2> QED BY <1>1, <2>2, <2>3, WriteKeeps, SameContinues
<1>4. CASE CommitOffline
  BY <1>1, <1>4, CommitKeeps DEF CommitOffline
<1>5. CASE DetectorFail
  <2>1. /\ UNCHANGED alerts
        /\ newAlerts' = [newAlerts EXCEPT ![Detector] = NoAlerts]
    BY <1>5 DEF DetectorFail, tables
  <2>2. \A q \in Writers, i \in AlertIds :
           newAlerts'[q][i] = IF q \in {Detector} THEN None ELSE newAlerts[q][i]
    BY <2>1 DEF TypeOK, NoAlerts
  <2>3. newAlerts' \in [Writers -> [AlertIds -> AlertRow \cup {None}]]
    BY <2>1 DEF TypeOK, NoAlerts
  <2>4. {Detector} \in SUBSET Writers
    BY <1>1
  <2> QED BY <2>1, <2>2, <2>3, <2>4, RollbackKeeps, SameContinues
<1> QED BY <1>2, <1>3, <1>4, <1>5 DEF Detect

LEMMA CrashKeeps == ASSUME TypeOK, AlertInv, Crash PROVE AlertInv' /\ RecordContinues
<1>1. UNCHANGED alerts /\ newAlerts' = [w \in Writers |-> NoAlerts]
  BY DEF Crash, tables
<1>2. \A q \in Writers, i \in AlertIds :
         newAlerts'[q][i] = IF q \in Writers THEN None ELSE newAlerts[q][i]
  BY <1>1 DEF NoAlerts
<1>3. newAlerts' \in [Writers -> [AlertIds -> AlertRow \cup {None}]]
  BY <1>1 DEF NoAlerts
<1> QED BY <1>1, <1>2, <1>3, RollbackKeeps, SameContinues

\* Every step keeps the invariant of the alerts and continues those on record.
THEOREM AlertStep ==
    TypeOK /\ LocalsOK /\ AlertInv /\ [Next]_vars => AlertInv' /\ RecordContinues
<1> SUFFICES ASSUME TypeOK, LocalsOK, AlertInv, [Next]_vars PROVE AlertInv' /\ RecordContinues
  OBVIOUS
<1>1. CASE UNCHANGED vars
  BY <1>1, NothingKeeps DEF vars, tables, pending
<1>2. CASE Tick \/ ReadAlert
  BY <1>2, NothingKeeps DEF Tick, ReadAlert, tables, pending
<1> QED BY <1>1, <1>2, RequestKeeps, DetectKeeps, ResolveKeeps, CrashKeeps DEF Next

LEMMA InitAlerts == Init => AlertInv
BY DEF Init, AlertInv, AlertLocksExclusive, OneOpenAlert, OneOpenSeen, OneOpener,
   PendingContinues, AlertsSeenBy, IsOpen, NoAlerts

LEMMA AlertInvariant == Spec => [](TypeOK /\ LocalsOK /\ AlertInv)
BY InitType, InitAlerts, TypeStep, AlertStep, PTL DEF Spec

\* One incident, one row: no battery ever has two unresolved alerts of a type,
\* however requests, the detector and the operator interleave, fail or die.
THEOREM OneOpenAlertHolds == Spec => []OneOpenAlert
<1>1. AlertInv => OneOpenAlert
  BY DEF AlertInv
<1> QED BY <1>1, AlertInvariant, PTL

\* Alerts are history: no step loses, rewrites or reopens an incident on record.
THEOREM IncidentsPreservedHolds == Spec => IncidentsPreserved
<1> DEFINE Preserved ==
      \A i \in AlertIds : alerts[i] # None =>
        /\ alerts'[i] # None
        /\ alerts'[i].battery_id = alerts[i].battery_id
        /\ alerts'[i].alert_type = alerts[i].alert_type
        /\ alerts'[i].timestamp = alerts[i].timestamp
        /\ alerts[i].resolved_at # None =>
              /\ alerts'[i].resolved_at # None
              /\ alerts'[i].severity = alerts[i].severity
<1>1. TypeOK /\ LocalsOK /\ AlertInv /\ [Next]_vars => [Preserved]_vars
  <2>1. RecordContinues => Preserved
    BY DEF RecordContinues, Continues
  <2> QED BY <2>1, AlertStep
<1>2. Spec => [][Preserved]_vars
  BY <1>1, AlertInvariant, PTL DEF Spec
<1> QED BY <1>2 DEF IncidentsPreserved

-----------------------------------------------------------------------------
(***************************************************************************)
(* The order of the checks: strict, and with a last one in every set.      *)
(***************************************************************************)
LEMMA RankIsNumber == \A t \in AlertTypes : RuleRank[t] \in Int
BY DEF AlertTypes, RuleTypes, RuleRank

LEMMA BeforeIsStrict ==
    /\ \A c \in Batteries \X AlertTypes : ~ Before(c, c)
    /\ \A c, d, e \in Batteries \X AlertTypes : Before(c, d) /\ Before(d, e) => Before(c, e)
<1>1. \A c \in Batteries \X AlertTypes : c[1] \in Int /\ c[2] \in AlertTypes
  BY IngestionAssumption DEF IngestionAssumption
<1>2. ASSUME NEW c \in Batteries \X AlertTypes PROVE ~ Before(c, c)
  BY <1>1, RankIsNumber DEF Before
<1>3. ASSUME NEW c \in Batteries \X AlertTypes, NEW d \in Batteries \X AlertTypes,
             NEW e \in Batteries \X AlertTypes, Before(c, d), Before(d, e)
      PROVE  Before(c, e)
  <2>1. /\ c[1] \in Int /\ d[1] \in Int /\ e[1] \in Int
        /\ RuleRank[c[2]] \in Int /\ RuleRank[d[2]] \in Int /\ RuleRank[e[2]] \in Int
    BY <1>1, RankIsNumber
  <2> QED BY <1>3, <2>1 DEF Before
<1> QED BY <1>2, <1>3

LEMMA ChecksFinite == IsFiniteSet(Batteries \X AlertTypes)
<1>1. AlertTypes = {"LOW_SOC"} \cup {"HIGH_TEMPERATURE"} \cup {"VOLTAGE_ANOMALY"}
                     \cup {"RAPID_DISCHARGE"} \cup {"DEVICE_OFFLINE"}
  BY DEF AlertTypes, RuleTypes
<1>2. IsFiniteSet(AlertTypes)
  BY <1>1, FS_Singleton, FS_Union
<1> QED BY <1>2, IngestionAssumption, FS_Product DEF IngestionAssumption

LEMMA LastCheck ==
    ASSUME NEW C \in SUBSET (Batteries \X AlertTypes), C # {}
    PROVE  \E c \in C : \A d \in C : ~ Before(c, d)
<1> DEFINE K == Batteries \X AlertTypes
<1> DEFINE After(c) == {d \in C : Before(c, d)}
<1> DEFINE Afters == {After(c) : c \in C}
<1>1. FiniteSubsetsOf(K) = SUBSET K
  BY ChecksFinite, FS_FiniteSubsetsOfFinite
<1>2. IsWellFoundedOn(StrictSubsetOrdering(K), SUBSET K)
  BY <1>1, FS_StrictSubsetOrderingWellFounded
<1>3. Afters \subseteq SUBSET K /\ Afters # {}
  OBVIOUS
<1>4. PICK X \in Afters : \A Y \in Afters : ~ (<<Y, X>> \in StrictSubsetOrdering(K))
  <2> HIDE DEF Afters, K
  <2> QED BY <1>2, <1>3, WFMin
<1>5. PICK c \in C : X = After(c)
  OBVIOUS
<1>6. ASSUME NEW d \in C, Before(c, d) PROVE FALSE
  <2>1. After(d) \subseteq After(c)
    BY <1>6, BeforeIsStrict
  <2>2. d \in After(c) /\ d \notin After(d)
    BY <1>6, BeforeIsStrict
  <2>3. <<After(d), X>> \in (SUBSET K) \X (SUBSET K)
    BY <1>5
  <2>4. <<After(d), X>> \in StrictSubsetOrdering(K)
    BY <1>5, <2>1, <2>2, <2>3 DEF StrictSubsetOrdering
  <2> QED BY <1>4, <2>4
<1> QED BY <1>6

\* At most one check is the next one.
LEMMA NextCheckUnique ==
    ASSUME TypeOK, NEW p \in Requests, NEW c, NEW d, NextCheck(p, c), NextCheck(p, d)
    PROVE  c = d
<1>1. c \in Batteries \X AlertTypes /\ d \in Batteries \X AlertTypes
  BY DEF NextCheck, TypeOK
<1>2. c = d \/ (Before(c, d) /\ Before(d, c))
  BY DEF NextCheck
<1> QED BY <1>1, <1>2, BeforeIsStrict

-----------------------------------------------------------------------------
(***************************************************************************)
(* What a request has done of its checks: it holds the alerts of checks it *)
(* has done, an open one for every anomaly among them, and what it is      *)
(* about to resolve belongs to the check it is at.                         *)
(***************************************************************************)

\* A reading that breaks a rule by itself gives that rule nothing to clear.
LEMMA AnomalyIsNotCleared ==
    ASSUME TypeOK, NEW p \in Requests, LatestOf(p), NEW c \in todo[p],
           latest[p][c[1]] # None,
           "CLEAR" \in CheckVerdicts(p, c) \/ "SKIP" \in CheckVerdicts(p, c)
    PROVE  ~ Anomalous(latest[p][c[1]], c[2])
<1> SUFFICES ASSUME Anomalous(latest[p][c[1]], c[2]) PROVE FALSE
  OBVIOUS
<1>1. c[1] \in Batteries /\ latest[p][c[1]].battery_id = c[1]
  BY DEF TypeOK, LatestOf
<1>2. c[2] \in {"LOW_SOC", "HIGH_TEMPERATURE", "VOLTAGE_ANOMALY"}
  BY DEF Anomalous, RuleTypes
<1>3. CheckVerdicts(p, c) = RuleVerdicts(c[2], latest[p][c[1]], NominalVoltage[c[1]], {})
  BY <1>2 DEF CheckVerdicts, RuleVerdicts
<1> QED BY <1>1, <1>3 DEF Anomalous, Severities

\* The create-or-retain statement writes an open alert of its incident, over
\* no alert of another one.
LEMMA CreatedRow ==
    ASSUME TypeOK, NEW w \in Writers, NEW b \in Batteries, NEW t \in AlertTypes,
           NEW severity \in Severities, NEW at \in Int,
           CreateOrRetainAlert(w, b, t, severity, at)
    PROVE  \E i \in AlertIds, row \in AlertRow :
              /\ newAlerts' = [newAlerts EXCEPT ![w][i] = row]
              /\ IsOpen(row, b, t)
              /\ newAlerts[w][i] # None => Incident(newAlerts[w][i]) = <<b, t>>
<1>1. \A row \in AlertRow : row # None
  BY IngestionAssumption DEF IngestionAssumption
<1>2. ASSUME NEW i \in AlertIds, IsOpen(AlertsSeenBy(w)[i], b, t),
             newAlerts' = [newAlerts EXCEPT ![w][i] = Retained(AlertsSeenBy(w)[i], severity)]
      PROVE  \E row \in AlertRow :
              /\ newAlerts' = [newAlerts EXCEPT ![w][i] = row]
              /\ IsOpen(row, b, t)
              /\ newAlerts[w][i] # None => Incident(newAlerts[w][i]) = <<b, t>>
  <2> DEFINE row == Retained(AlertsSeenBy(w)[i], severity)
  <2>1. AlertsSeenBy(w)[i] \in AlertRow
    BY <1>2, SeenType DEF IsOpen
  <2>2. row \in AlertRow /\ IsOpen(row, b, t)
    BY <1>1, <1>2, <2>1, RetainedRow DEF IsOpen
  <2>3. newAlerts[w][i] # None => Incident(newAlerts[w][i]) = <<b, t>>
    BY <1>2 DEF AlertsSeenBy, IsOpen, Incident
  <2> QED BY <1>2, <2>2, <2>3
<1>3. ASSUME NEW i \in AlertIds, FreshId(i),
             newAlerts' = [newAlerts EXCEPT ![w][i] = NewAlert(b, t, severity, at)]
      PROVE  \E row \in AlertRow :
              /\ newAlerts' = [newAlerts EXCEPT ![w][i] = row]
              /\ IsOpen(row, b, t)
              /\ newAlerts[w][i] # None => Incident(newAlerts[w][i]) = <<b, t>>
  <2>1. NewAlert(b, t, severity, at) \in AlertRow /\ IsOpen(NewAlert(b, t, severity, at), b, t)
    BY <1>1, NewRow DEF IsOpen
  <2>2. newAlerts[w][i] = None
    BY <1>3 DEF FreshId, UnusedId
  <2> QED BY <1>3, <2>1, <2>2
<1> QED BY <1>2, <1>3 DEF CreateOrRetainAlert

\* The incident of an alert stays, whatever others commit.
LEMMA SeenIncident ==
    ASSUME TypeOK, AlertInv, RecordContinues, NEW w \in Writers, newAlerts'[w] = newAlerts[w],
           NEW i \in AlertIds, AlertsSeenBy(w)[i] # None
    PROVE  Incident(AlertsSeenBy(w)'[i]) = Incident(AlertsSeenBy(w)[i])
<1>1. AlertsSeenBy(w)'[i] = IF newAlerts[w][i] # None THEN newAlerts[w][i] ELSE alerts'[i]
  BY DEF AlertsSeenBy
<1>2. AlertsSeenBy(w)[i] = IF newAlerts[w][i] # None THEN newAlerts[w][i] ELSE alerts[i]
  BY DEF AlertsSeenBy
<1> QED BY <1>1, <1>2 DEF RecordContinues, Continues, Incident

LEMMA ChecksFrame ==
    ASSUME TypeOK, LocalsOK, AlertInv, RecordContinues, NEW p \in Requests, ChecksOf(p),
           newAlerts'[p] = newAlerts[p], todo'[p] = todo[p], latest'[p] = latest[p],
           found'[p] = found[p],
           pc'[p] \in Writing => pc[p] \in Writing \/ latest[p] = NoLatest
    PROVE  ChecksOf(p)'
<1>1. p \in Writers
  BY DEF Writers
<1>2. LatestOf(p)' /\ HeldOf(p)'
  BY DEF ChecksOf, LatestOf, HeldOf, Incident
<1>3. FoundOf(p)'
  <2> SUFFICES ASSUME found[p] # None
               PROVE  \E c \in todo[p] :
                        /\ \A d \in todo[p] : d = c \/ Before(c, d)
                        /\ Incident(AlertsSeenBy(p)'[found[p]]) = c
                        /\ ~ Anomalous(latest[p][c[1]], c[2])
    BY DEF FoundOf, NextCheck, Anomalous
  <2>1. PICK c \in todo[p] :
          /\ NextCheck(p, c)
          /\ Incident(AlertsSeenBy(p)[found[p]]) = c
          /\ ~ Anomalous(latest[p][c[1]], c[2])
    BY DEF ChecksOf, FoundOf
  <2>2. found[p] \in AlertIds /\ AlertsSeenBy(p)[found[p]] # None
    BY DEF TypeOK, LocalsOK, FoundExists
  <2>3. Incident(AlertsSeenBy(p)'[found[p]]) = c
    BY <1>1, <2>1, <2>2, SeenIncident
  <2> QED BY <2>1, <2>3 DEF NextCheck
<1>4. RaisedOf(p)'
  BY DEF ChecksOf, RaisedOf, NoLatest, IsOpen, Anomalous
<1> QED BY <1>2, <1>3, <1>4 DEF ChecksOf

LEMMA ChecksDropped ==
    ASSUME NEW p \in Requests, newAlerts'[p] = NoAlerts, todo'[p] = {}, latest'[p] = NoLatest,
           found'[p] = None
    PROVE  ChecksOf(p)'
BY DEF ChecksOf, LatestOf, HeldOf, FoundOf, RaisedOf, NoAlerts, NoLatest

LEMMA UpsertChecks ==
    ASSUME TypeOK, LocalsOK, Stages, NEW p \in Requests, ChecksOf(p), UpsertCurrentState(p)
    PROVE  ChecksOf(p)'
<1> USE DEF UpsertCurrentState, Goto, tables
<1>1. newAlerts'[p] = NoAlerts
  BY DEF Stages, StagesOf
<1>2. todo[p] = {} /\ found[p] = None
  BY DEF LocalsOK, ChecksOnlyAhead, ChecksOf, FoundOf
<1>3. todo'[p] = Checks(p) /\ found'[p] = None
  BY <1>2 DEF TypeOK
<1>4. PICK best \in [Touched(p) -> DOMAIN Events(p)] :
        /\ \A b \in Touched(p) : Events(p)[best[b]].battery_id = b
        /\ latest' = [latest EXCEPT ![p] =
              [b \in Batteries |-> IF b \in Touched(p) THEN Events(p)[best[b]] ELSE None]]
  OBVIOUS
<1>5. \A b \in Batteries :
        latest'[p][b] = IF b \in Touched(p) THEN Events(p)[best[b]] ELSE None
  BY <1>4 DEF TypeOK
<1>6. LatestOf(p)'
  BY <1>4, <1>5 DEF LatestOf
<1>7. HeldOf(p)' /\ FoundOf(p)'
  BY <1>1, <1>3 DEF HeldOf, FoundOf, NoAlerts
<1>8. RaisedOf(p)'
  <2> SUFFICES ASSUME NEW b \in Batteries, NEW t \in RuleTypes, latest'[p][b] # None
               PROVE  <<b, t>> \in todo'[p]
    BY DEF RaisedOf
  <2>1. b \in Touched(p)
    BY <1>5
  <2> QED BY <1>3, <2>1 DEF Checks, AlertTypes
<1> QED BY <1>6, <1>7, <1>8 DEF ChecksOf

\* Done with a check, a request has raised what was anomalous in it.
LEMMA DoneChecks ==
    ASSUME TypeOK, LocalsOK, NEW p \in Requests, ChecksOf(p), pc[p] \in Writing,
           NEW c \in todo[p], NextCheck(p, c), UNCHANGED latest,
           todo'[p] = todo[p] \ {c}, found'[p] = None,
           NEW i \in AlertIds, NEW row \in AlertRow, Incident(row) = c,
           newAlerts' = [newAlerts EXCEPT ![p][i] = row],
           newAlerts[p][i] # None => Incident(newAlerts[p][i]) = c,
           Anomalous(latest[p][c[1]], c[2]) => IsOpen(row, c[1], c[2])
    PROVE  ChecksOf(p)'
<1>1. p \in Writers /\ c \in Batteries \X AlertTypes
  BY DEF Writers, TypeOK
<1>2. \A j \in AlertIds : newAlerts'[p][j] = IF j = i THEN row ELSE newAlerts[p][j]
  BY <1>1 DEF TypeOK
<1>3. LatestOf(p)' /\ FoundOf(p)'
  BY DEF ChecksOf, LatestOf, FoundOf
<1>4. HeldOf(p)'
  <2> SUFFICES ASSUME NEW j \in AlertIds, newAlerts'[p][j] # None, NEW d \in todo[p], d # c
               PROVE  Before(Incident(newAlerts'[p][j]), d)
    BY DEF HeldOf, Incident
  <2>1. CASE j = i
    BY <1>2, <2>1 DEF NextCheck
  <2>2. CASE j # i
    BY <1>2, <2>2 DEF ChecksOf, HeldOf
  <2> QED BY <2>1, <2>2
<1>5. RaisedOf(p)'
  <2> SUFFICES ASSUME NEW b \in Batteries, NEW t \in RuleTypes,
                      latest[p][b] # None, Anomalous(latest[p][b], t)
               PROVE  <<b, t>> \in todo'[p] \/ \E j \in AlertIds : IsOpen(newAlerts'[p][j], b, t)
    BY DEF RaisedOf, Anomalous, IsOpen
  <2>1. <<b, t>> \in todo[p] \/ \E j \in AlertIds : IsOpen(newAlerts[p][j], b, t)
    BY DEF ChecksOf, RaisedOf
  <2>2. CASE <<b, t>> = c
    <3>1. c[1] = b /\ c[2] = t
      BY <2>2
    <3>2. IsOpen(row, b, t)
      BY <3>1
    <3> QED BY <1>2, <3>2
  <2>3. CASE <<b, t>> # c
    <3>1. ASSUME NEW j \in AlertIds, IsOpen(newAlerts[p][j], b, t) PROVE IsOpen(newAlerts'[p][j], b, t)
      <4>1. newAlerts[p][j] # None /\ Incident(newAlerts[p][j]) = <<b, t>>
        BY <3>1 DEF IsOpen, Incident
      <4>2. j # i
        BY <2>3, <4>1
      <4> QED BY <1>2, <3>1, <4>2
    <3> QED BY <2>1, <2>3, <3>1
  <2> QED BY <2>2, <2>3
<1> QED BY <1>3, <1>4, <1>5 DEF ChecksOf

LEMMA EvaluateChecks ==
    ASSUME TypeOK, LocalsOK, NEW p \in Requests, ChecksOf(p), EvaluateRules(p)
    PROVE  ChecksOf(p)'
<1> USE DEF EvaluateRules, tables
<1>1. PICK c \in todo[p] :
        /\ NextCheck(p, c)
        /\ \/ found[p] = None /\ RaiseAlert(p, c)
           \/ found[p] = None /\ SkipRule(p, c)
           \/ found[p] = None /\ ReadOpenAlert(p, c)
           \/ found[p] # None /\ WriteResolution(p, c)
  OBVIOUS
<1>2. /\ p \in Writers /\ pc[p] \in Writing /\ UNCHANGED <<pc, latest, alerts>>
      /\ c \in Batteries \X AlertTypes /\ c[1] \in Batteries /\ c[2] \in AlertTypes
      /\ latest[p][c[1]].timestamp \in Int /\ LatestOf(p)
  BY CheckFacts DEF Writers, Writing, ChecksOf, TypeOK
<1>3. latest[p][c[1]] # None
  BY IngestionAssumption DEF LocalsOK, ChecksHaveReadings, IngestionAssumption
<1>4. CASE found[p] = None /\ RaiseAlert(p, c)
  <2>1. PICK severity \in Severities :
          CreateOrRetainAlert(p, c[1], c[2], severity, latest[p][c[1]].timestamp)
    BY <1>4 DEF RaiseAlert
  <2>2. PICK i \in AlertIds, row \in AlertRow :
          /\ newAlerts' = [newAlerts EXCEPT ![p][i] = row]
          /\ IsOpen(row, c[1], c[2])
          /\ newAlerts[p][i] # None => Incident(newAlerts[p][i]) = <<c[1], c[2]>>
    BY <1>2, <2>1, CreatedRow
  <2>3. c = <<c[1], c[2]>> /\ Incident(row) = c
    BY <1>2, <2>2 DEF IsOpen, Incident
  <2>4. todo'[p] = todo[p] \ {c} /\ found'[p] = None
    BY <1>4 DEF RaiseAlert, CheckDone, TypeOK
  <2> QED BY <1>1, <1>2, <2>2, <2>3, <2>4, DoneChecks
<1>5. CASE /\ found[p] = None /\ UNCHANGED newAlerts /\ found'[p] = None
           /\ todo'[p] = todo[p] \ {c} /\ ~ Anomalous(latest[p][c[1]], c[2])
  <2>1. LatestOf(p)' /\ FoundOf(p)'
    BY <1>2, <1>5 DEF ChecksOf, LatestOf, FoundOf
  <2>2. HeldOf(p)'
    BY <1>5 DEF ChecksOf, HeldOf, Incident
  <2>3. RaisedOf(p)'
    BY <1>2, <1>5 DEF ChecksOf, RaisedOf, Anomalous, IsOpen
  <2> QED BY <2>1, <2>2, <2>3 DEF ChecksOf
<1>6. CASE found[p] = None /\ SkipRule(p, c)
  <2>1. ~ Anomalous(latest[p][c[1]], c[2])
    BY <1>2, <1>3, <1>6, AnomalyIsNotCleared DEF SkipRule
  <2> QED BY <1>5, <1>6, <2>1 DEF SkipRule, CheckDone, TypeOK
<1>7. CASE found[p] = None /\ ReadOpenAlert(p, c)
  <2>1. ~ Anomalous(latest[p][c[1]], c[2])
    BY <1>2, <1>3, <1>7, AnomalyIsNotCleared DEF ReadOpenAlert
  <2>2. CASE CheckDone(p, c) /\ UNCHANGED found
    BY <1>5, <1>7, <2>1, <2>2 DEF ReadOpenAlert, CheckDone, TypeOK
  <2>3. ASSUME NEW i \in AlertIds, IsOpen(AlertsSeenBy(p)[i], c[1], c[2]),
               found' = [found EXCEPT ![p] = i], UNCHANGED <<todo, newAlerts>>
        PROVE  ChecksOf(p)'
    <3>1. LatestOf(p)' /\ HeldOf(p)' /\ RaisedOf(p)'
      BY <1>2, <2>3 DEF ChecksOf, LatestOf, HeldOf, RaisedOf, Incident, IsOpen, Anomalous
    <3>2. found'[p] = i /\ AlertsSeenBy(p)' = AlertsSeenBy(p)
      BY <1>2, <2>3 DEF TypeOK, AlertsSeenBy
    <3>3. Incident(AlertsSeenBy(p)[i]) = c
      BY <1>2, <2>3 DEF IsOpen, Incident
    <3>4. FoundOf(p)'
      <4>1. NextCheck(p, c)'
        BY <1>1, <2>3 DEF NextCheck
      <4>2. (~ Anomalous(latest[p][c[1]], c[2]))'
        BY <1>2, <2>1 DEF Anomalous
      <4>3. c \in todo'[p]
        BY <2>3
      <4>4. Incident(AlertsSeenBy(p)[found[p]])' = c
        BY <3>2, <3>3 DEF Incident
      <4> QED BY <4>1, <4>2, <4>3, <4>4 DEF FoundOf
    <3> QED BY <3>1, <3>4 DEF ChecksOf
  <2> QED BY <1>7, <2>2, <2>3 DEF ReadOpenAlert
<1>8. CASE found[p] # None /\ WriteResolution(p, c)
  <2>1. PICK d \in todo[p] :
          /\ NextCheck(p, d)
          /\ Incident(AlertsSeenBy(p)[found[p]]) = d
          /\ ~ Anomalous(latest[p][d[1]], d[2])
    BY <1>8 DEF ChecksOf, FoundOf
  <2>2. d = c
    BY <1>1, <2>1, NextCheckUnique
  <2>3. found[p] \in AlertIds /\ AlertsSeenBy(p)[found[p]] \in AlertRow
    BY <1>2, <1>8, SeenRow DEF TypeOK, LocalsOK, FoundExists
  <2> DEFINE row == Resolved(AlertsSeenBy(p)[found[p]], latest[p][c[1]].timestamp)
  <2>4. row \in AlertRow /\ Incident(row) = c
    BY <1>2, <2>1, <2>2, <2>3, ResolvedRow DEF Incident
  <2>5. newAlerts[p][found[p]] # None => Incident(newAlerts[p][found[p]]) = c
    BY <2>1, <2>2, <2>3 DEF AlertsSeenBy
  <2>6. /\ newAlerts' = [newAlerts EXCEPT ![p][found[p]] = row]
        /\ todo'[p] = todo[p] \ {c}
        /\ found'[p] = None
    BY <1>8 DEF WriteResolution, CheckDone, TypeOK
  <2>7. ~ Anomalous(latest[p][c[1]], c[2])
    BY <2>1, <2>2
  <2> HIDE DEF row
  <2> QED BY <1>1, <1>2, <2>3, <2>4, <2>5, <2>6, <2>7, DoneChecks
<1> QED BY <1>1, <1>4, <1>6, <1>7, <1>8

\* What a step of one request does to the checks of another: nothing.
LEMMA OtherChecks ==
    ASSUME TypeOK, LocalsOK, AlertInv, RecordContinues, NEW p \in Requests,
           Arrive(p) \/ Ingest(p) \/ Fail(p), NEW q \in Requests, q # p, ChecksOf(q)
    PROVE  ChecksOf(q)'
<1> USE DEF Goto, tables, pending, locals
<1>1. p \in Writers /\ q \in Writers
  BY DEF Writers
<1>2. newAlerts'[q] = newAlerts[q]
  <2>1. CASE EvaluateRules(p)
    BY <1>1, <2>1, EvaluateWrites DEF TypeOK
  <2>2. CASE ~ EvaluateRules(p)
    BY <1>1, <2>2 DEF Arrive, Ingest, Fail, Validate, InsertTelemetry, UpsertCurrentState,
       CommitData, RulesEvaluated, Commit, CommitTransaction, TypeOK
  <2> QED BY <2>1, <2>2
<1>3. /\ todo'[q] = todo[q] /\ found'[q] = found[q]
      /\ latest'[q] = latest[q] /\ pc'[q] = pc[q]
  <2>1. CASE EvaluateRules(p)
    BY <2>1 DEF EvaluateRules, RaiseAlert, SkipRule, ReadOpenAlert, WriteResolution, CheckDone, TypeOK
  <2>2. CASE Arrive(p) \/ Validate(p) \/ InsertTelemetry(p) \/ CommitData(p) \/ RulesEvaluated(p)
    BY <2>2 DEF Arrive, Validate, InsertTelemetry, CommitData, RulesEvaluated, TypeOK
  <2>3. CASE UpsertCurrentState(p)
    BY <2>3 DEF UpsertCurrentState, TypeOK
  <2>4. CASE Commit(p) \/ Fail(p)
    BY <2>4 DEF Commit, Fail, TypeOK
  <2> QED BY <2>1, <2>2, <2>3, <2>4 DEF Ingest
<1> QED BY <1>2, <1>3, ChecksFrame

LEMMA OwnChecks ==
    ASSUME TypeOK, LocalsOK, AlertInv, RecordContinues, Stages, NEW p \in Requests,
           Arrive(p) \/ Ingest(p) \/ Fail(p), ChecksOf(p)
    PROVE  ChecksOf(p)'
<1> USE DEF Goto, tables, pending, locals
<1>1. p \in Writers
  BY DEF Writers
<1>2. CASE Arrive(p) \/ Validate(p) \/ RulesEvaluated(p)
  <2>1. /\ newAlerts'[p] = newAlerts[p] /\ todo'[p] = todo[p] /\ latest'[p] = latest[p]
        /\ found'[p] = found[p]
        /\ pc'[p] \in Writing => pc[p] \in Writing
    BY <1>2 DEF Arrive, Validate, RulesEvaluated, Writing, TypeOK
  <2> QED BY <2>1, ChecksFrame
<1>3. CASE InsertTelemetry(p)
  <2>1. /\ newAlerts'[p] = newAlerts[p] /\ todo'[p] = todo[p] /\ latest'[p] = latest[p]
        /\ found'[p] = found[p] /\ latest[p] = NoLatest
    BY <1>3 DEF InsertTelemetry, Stages, StagesOf, Writing
  <2> QED BY <2>1, ChecksFrame
<1>4. CASE CommitData(p)
  <2>1. /\ newAlerts'[p] = newAlerts[p] /\ todo'[p] = todo[p] /\ latest'[p] = latest[p]
        /\ found'[p] = found[p] /\ pc[p] \in Writing
    BY <1>1, <1>4 DEF CommitData, CommitTransaction, Stages, StagesOf, Writing, TypeOK
  <2> QED BY <2>1, ChecksFrame
<1>5. CASE Commit(p)
  <2>1. todo[p] = {}
    BY <1>5 DEF Commit, LocalsOK, ChecksOnlyAhead
  <2>2. found[p] = None
    BY <2>1 DEF ChecksOf, FoundOf
  <2>3. newAlerts'[p] = NoAlerts /\ todo'[p] = {} /\ latest'[p] = NoLatest /\ found'[p] = None
    BY <1>1, <1>5, <2>1, <2>2 DEF Commit, CommitTransaction, TypeOK
  <2> QED BY <2>3, ChecksDropped
<1>6. CASE Fail(p)
  <2>1. newAlerts'[p] = NoAlerts /\ todo'[p] = {} /\ latest'[p] = NoLatest /\ found'[p] = None
    BY <1>1, <1>6 DEF Fail, TypeOK
  <2> QED BY <2>1, ChecksDropped
<1> QED BY <1>2, <1>3, <1>4, <1>5, <1>6, UpsertChecks, EvaluateChecks DEF Ingest

LEMMA DetectorChecks ==
    ASSUME TypeOK, DetectorHolds, Detect \/ DetectorFail
    PROVE  DetectorHolds'
<1> USE DEF tables, pending, locals
<1>1. Detector \in Writers
  BY DEF Writers
<1>2. CASE MarkStaleBatteriesOffline \/ ReadClock
  BY <1>2 DEF MarkStaleBatteriesOffline, ReadClock, DetectorHolds, NoAlerts
<1>3. CASE CommitOffline \/ DetectorFail
  <2>1. newAlerts'[Detector] = NoAlerts
    BY <1>1, <1>3 DEF CommitOffline, DetectorFail, TypeOK
  <2> QED BY <2>1 DEF DetectorHolds, NoAlerts
<1>4. CASE RaiseOffline
  <2>1. PICK b \in detTodo :
          /\ IsFirst(b)
          /\ CreateOrRetainAlert(Detector, b, "DEVICE_OFFLINE", "WARNING", detNow)
          /\ detTodo' = detTodo \ {b}
    BY <1>4 DEF RaiseOffline
  <2>2. b \in Batteries /\ detNow \in Int /\ detTodo \subseteq Int
    BY IngestionAssumption DEF TypeOK, IngestionAssumption
  <2>3. PICK i \in AlertIds, row \in AlertRow :
          /\ newAlerts' = [newAlerts EXCEPT ![Detector][i] = row]
          /\ IsOpen(row, b, "DEVICE_OFFLINE")
    BY <1>1, <2>1, <2>2, CreatedRow DEF AlertTypes, Severities
  <2>4. \A j \in AlertIds :
          newAlerts'[Detector][j] = IF j = i THEN row ELSE newAlerts[Detector][j]
    BY <1>1, <2>3 DEF TypeOK
  <2>5. \A c \in detTodo' : b < c
    BY <2>1, <2>2 DEF IsFirst
  <2>6. detPc' = "alerting"
    BY <1>4 DEF RaiseOffline
  <2>7. ASSUME NEW j \in AlertIds, newAlerts'[Detector][j] # None
        PROVE  /\ newAlerts'[Detector][j].alert_type = "DEVICE_OFFLINE"
               /\ \A c \in detTodo' : newAlerts'[Detector][j].battery_id < c
    <3>1. CASE j = i
      BY <2>3, <2>4, <2>5, <3>1 DEF IsOpen
    <3>2. CASE j # i
      BY <2>1, <2>4, <2>7, <3>2 DEF DetectorHolds
    <3> QED BY <3>1, <3>2
  <2> QED BY <2>6, <2>7 DEF DetectorHolds
<1> QED BY <1>2, <1>3, <1>4 DEF Detect

\* A step takes incidents only in the order of the checks.
THEOREM CheckStep ==
    TypeOK /\ LocalsOK /\ AlertInv /\ Stages /\ CheckInv /\ [Next]_vars => CheckInv'
<1> SUFFICES ASSUME TypeOK, LocalsOK, AlertInv, Stages, CheckInv, [Next]_vars PROVE CheckInv'
  OBVIOUS
<1> USE DEF tables, pending, locals, detector
<1>1. RecordContinues
  BY AlertStep
<1>2. DetectorHolds /\ (\A q \in Requests : ChecksOf(q)) /\ Detector \in Writers
      /\ Requests \subseteq Writers /\ Detector \notin Requests
  BY IngestionAssumption DEF CheckInv, Writers, IngestionAssumption
<1>3. ASSUME NEW p \in Requests, Arrive(p) \/ Ingest(p) \/ Fail(p) PROVE CheckInv'
  <2>1. \A q \in Requests : ChecksOf(q)'
    BY <1>1, <1>2, <1>3, OwnChecks, OtherChecks
  <2>2. newAlerts'[Detector] = newAlerts[Detector]
    <3>1. CASE EvaluateRules(p)
      <4>1. p # Detector /\ p \in Writers
        BY <1>2
      <4>2. newAlerts' = newAlerts
            \/ \E i \in AlertIds, row \in AlertRow : newAlerts' = [newAlerts EXCEPT ![p][i] = row]
        BY <3>1, EvaluateWrites
      <4> QED BY <1>2, <4>1, <4>2 DEF TypeOK
    <3>2. CASE ~ EvaluateRules(p)
      BY <1>2, <1>3, <3>2 DEF Arrive, Ingest, Fail, Validate, InsertTelemetry,
         UpsertCurrentState, CommitData, RulesEvaluated, Commit, CommitTransaction, TypeOK
    <3> QED BY <3>1, <3>2
  <2>3. UNCHANGED detector
    BY <1>3 DEF Arrive, Ingest, Fail, Validate, InsertTelemetry, UpsertCurrentState,
       CommitData, EvaluateRules, RulesEvaluated, Commit
  <2>4. DetectorHolds'
    BY <1>2, <2>2, <2>3 DEF DetectorHolds
  <2> QED BY <2>1, <2>4 DEF CheckInv
<1>4. ASSUME UNCHANGED locals, \A q \in Requests : newAlerts'[q] = newAlerts[q], DetectorHolds'
      PROVE  CheckInv'
  <2>1. \A q \in Requests : ChecksOf(q)'
    BY <1>1, <1>2, <1>4, ChecksFrame
  <2> QED BY <1>4, <2>1 DEF CheckInv
<1>5. CASE Detect \/ DetectorFail
  <2>1. DetectorHolds'
    BY <1>2, <1>5, DetectorChecks
  <2>2. \A q \in Requests : newAlerts'[q] = newAlerts[q]
    <3>1. CASE RaiseOffline
      BY <1>2, <3>1, RaiseWrites DEF TypeOK
    <3>2. CASE ~ RaiseOffline
      BY <1>2, <1>5, <3>2 DEF Detect, MarkStaleBatteriesOffline, ReadClock, CommitOffline,
         DetectorFail, TypeOK
    <3> QED BY <3>1, <3>2
  <2>3. UNCHANGED locals
    BY <1>5 DEF Detect, MarkStaleBatteriesOffline, ReadClock, RaiseOffline, CommitOffline,
       DetectorFail
  <2> QED BY <1>4, <2>1, <2>2, <2>3
<1>6. CASE UNCHANGED vars \/ ReadAlert \/ ResolveAlert \/ Tick
  <2>1. UNCHANGED <<newAlerts, locals, detector>>
    BY <1>6 DEF vars, ReadAlert, ResolveAlert, Tick
  <2>2. DetectorHolds'
    BY <1>2, <2>1 DEF DetectorHolds, NoAlerts
  <2> QED BY <1>4, <2>1, <2>2
<1>7. CASE Crash
  <2>1. \A w \in Writers : newAlerts'[w] = NoAlerts
    BY <1>7 DEF Crash
  <2>2. \A q \in Requests : todo'[q] = {} /\ latest'[q] = NoLatest /\ found'[q] = None
    BY <1>7 DEF Crash
  <2>3. DetectorHolds'
    BY <1>2, <2>1 DEF DetectorHolds, NoAlerts
  <2>4. \A q \in Requests : ChecksOf(q)'
    BY <1>2, <2>1, <2>2, ChecksDropped
  <2> QED BY <2>3, <2>4 DEF CheckInv
<1> QED BY <1>3, <1>5, <1>6, <1>7 DEF Next

LEMMA InitChecks == Init => CheckInv
BY DEF Init, CheckInv, ChecksOf, LatestOf, HeldOf, FoundOf, RaisedOf, DetectorHolds, NoAlerts,
   NoLatest, Writers, Writing

LEMMA CheckInvariant == Spec => [](TypeOK /\ LocalsOK /\ AlertInv /\ Stages /\ CheckInv)
BY InitType, InitAlerts, InitStages, InitChecks, TypeStep, AlertStep, StagesStep, CheckStep, PTL
   DEF Spec

-----------------------------------------------------------------------------
(***************************************************************************)
(* Nobody waits in a circle.  Whoever waits for a request at an earlier    *)
(* statement waits for one that is further on; among those that raise and  *)
(* resolve, each waits for a writer whose next check comes after its own.  *)
(***************************************************************************)

\* The writer w waits, and the incident it waits for is that of check c.
AtCheck(w, c) ==
    IF w = Detector
    THEN detPc = "alerting" /\ c[1] \in detTodo /\ IsFirst(c[1]) /\ c[2] = "DEVICE_OFFLINE"
    ELSE pc[w] = "rules" /\ NextCheck(w, c)

\* A row that somebody else holds is of the incident of the committed row.
LEMMA HolderIncident ==
    ASSUME TypeOK, AlertInv, NEW q \in Writers, NEW i \in AlertIds,
           newAlerts[q][i] # None, alerts[i] # None
    PROVE  Incident(newAlerts[q][i]) = Incident(alerts[i])
BY DEF AlertInv, PendingContinues, Continues, Incident

LEMMA IncidentHeld ==
    ASSUME TypeOK, AlertInv, NEW w \in Writers, NEW b \in Batteries, NEW t \in AlertTypes,
           NEW q \in IncidentHolders(w, b, t)
    PROVE  q \in Writers /\ \E i \in AlertIds :
              newAlerts[q][i] # None /\ Incident(newAlerts[q][i]) = <<b, t>>
<1>1. PICK i \in AlertIds :
        newAlerts[q][i] # None /\ (IsOpen(newAlerts[q][i], b, t) \/ IsOpen(alerts[i], b, t))
  BY DEF IncidentHolders
<1>2. q \in Writers
  BY DEF IncidentHolders
<1>3. IsOpen(newAlerts[q][i], b, t) => Incident(newAlerts[q][i]) = <<b, t>>
  BY DEF IsOpen, Incident
<1>4. IsOpen(alerts[i], b, t) => alerts[i] # None /\ Incident(alerts[i]) = <<b, t>>
  BY DEF IsOpen, Incident
<1> QED BY <1>1, <1>2, <1>3, <1>4, HolderIncident

LEMMA WaitsAtCheck ==
    ASSUME TypeOK, LocalsOK, AlertInv, CheckInv, NEW w \in Writers,
           w = Detector \/ pc[w] = "rules", NEW q \in WaitsFor(w)
    PROVE  \E c \in Batteries \X AlertTypes :
              /\ AtCheck(w, c)
              /\ q \in Writers
              /\ \E i \in AlertIds : newAlerts[q][i] # None /\ Incident(newAlerts[q][i]) = c
<1>1. CASE w = Detector
  <2>1. PICK b \in detTodo :
          detPc = "alerting" /\ IsFirst(b) /\ q \in IncidentHolders(w, b, "DEVICE_OFFLINE")
    BY <1>1 DEF WaitsFor
  <2>2. b \in Batteries /\ "DEVICE_OFFLINE" \in AlertTypes
    BY DEF TypeOK, AlertTypes
  <2>3. q \in Writers /\ \E i \in AlertIds :
          newAlerts[q][i] # None /\ Incident(newAlerts[q][i]) = <<b, "DEVICE_OFFLINE">>
    BY <2>1, <2>2, IncidentHeld
  <2>4. AtCheck(w, <<b, "DEVICE_OFFLINE">>)
    BY <1>1, <2>1 DEF AtCheck
  <2> QED BY <2>2, <2>3, <2>4
<1>2. CASE w # Detector /\ found[w] = None
  <2>1. w \in Requests /\ pc[w] = "rules"
    BY <1>2 DEF Writers
  <2>2. PICK c \in todo[w] : NextCheck(w, c) /\ q \in IncidentHolders(w, c[1], c[2])
    BY <1>2, <2>1 DEF WaitsFor
  <2>3. c \in Batteries \X AlertTypes /\ c = <<c[1], c[2]>>
        /\ c[1] \in Batteries /\ c[2] \in AlertTypes
    BY <2>1, <2>2 DEF TypeOK
  <2>4. q \in Writers /\ \E i \in AlertIds :
          newAlerts[q][i] # None /\ Incident(newAlerts[q][i]) = <<c[1], c[2]>>
    BY <2>2, <2>3, IncidentHeld
  <2>5. AtCheck(w, c)
    BY <1>2, <2>1, <2>2 DEF AtCheck
  <2> QED BY <2>3, <2>4, <2>5
<1>3. CASE w # Detector /\ found[w] # None
  <2>1. w \in Requests /\ pc[w] = "rules"
    BY <1>3 DEF Writers
  <2>2. q \in AlertHolders(w, found[w])
    BY <1>3, <2>1 DEF WaitsFor
  <2>3. PICK c \in todo[w] : NextCheck(w, c) /\ Incident(AlertsSeenBy(w)[found[w]]) = c
    BY <1>3, <2>1 DEF CheckInv, ChecksOf, FoundOf
  <2>4. /\ found[w] \in AlertIds /\ AlertsSeenBy(w)[found[w]] # None
        /\ q \in Writers /\ q # w /\ newAlerts[q][found[w]] # None
        /\ c \in Batteries \X AlertTypes
    BY <1>3, <2>1, <2>2, <2>3 DEF AlertHolders, TypeOK, LocalsOK, FoundExists
  <2>5. newAlerts[w][found[w]] = None
    BY <2>4 DEF AlertInv, AlertLocksExclusive
  <2>6. AlertsSeenBy(w)[found[w]] = alerts[found[w]]
    BY <2>4, <2>5 DEF AlertsSeenBy
  <2>7. Incident(newAlerts[q][found[w]]) = c
    BY <2>3, <2>4, <2>6, HolderIncident
  <2>8. AtCheck(w, c)
    BY <1>3, <2>1, <2>3 DEF AtCheck
  <2> QED BY <2>4, <2>7, <2>8
<1> QED BY <1>1, <1>2, <1>3

\* What a writer holds comes before the check it is at.
LEMMA HoldsEarlier ==
    ASSUME TypeOK, CheckInv, NEW q \in Writers, NEW i \in AlertIds, newAlerts[q][i] # None,
           NEW c \in Batteries \X AlertTypes, AtCheck(q, c)
    PROVE  Before(Incident(newAlerts[q][i]), c)
<1>1. CASE q = Detector
  <2>1. /\ newAlerts[q][i].alert_type = "DEVICE_OFFLINE"
        /\ newAlerts[q][i].battery_id < c[1]
        /\ c[2] = "DEVICE_OFFLINE"
    BY <1>1 DEF CheckInv, DetectorHolds, AtCheck
  <2> QED BY <2>1 DEF Before, Incident
<1>2. CASE q # Detector
  <2>1. q \in Requests /\ c \in todo[q]
    BY <1>2 DEF Writers, AtCheck, NextCheck
  <2> QED BY <2>1 DEF CheckInv, ChecksOf, HeldOf
<1> QED BY <1>1, <1>2

\* Before the rules, a request waits for one that is further on.
LEMMA WaitsAhead ==
    ASSUME TypeOK, LocalsOK, Stages, NEW w \in Requests, w # Detector, NEW q \in WaitsFor(w)
    PROVE  /\ pc[w] = "insert" => q \in Requests /\ pc[q] \in Writing \cup {"upsert"}
           /\ pc[w] = "upsert" => q \in Requests /\ pc[q] \in Writing
           /\ pc[w] \in {"insert", "upsert", "rules"}
<1>1. CASE pc[w] = "insert"
  <2>1. q \in EventHolders(w)
    BY <1>1 DEF WaitsFor
  <2>2. q \in Requests /\ newTelemetry[q] # {}
    BY <2>1 DEF EventHolders, Stored
  <2> QED BY <1>1, <2>2 DEF Stages, StagesOf
<1>2. CASE pc[w] = "upsert"
  <2>1. q \in RowHolders(w)
    BY <1>2 DEF WaitsFor
  <2>2. PICK b \in Touched(w) : q \in Requests /\ newCurrent[q][b] # None
    BY <2>1 DEF RowHolders
  <2>3. b \in Batteries
    <3>1. PICK k \in Accepted(w) : b = Events(w)[k].battery_id
      BY DEF Touched
    <3>2. Events(w)[k] \in EventRange(w)
      BY DEF Accepted, EventRange
    <3> QED BY <1>2, <3>1, <3>2 DEF LocalsOK, BodiesRegistered, Validated
  <2>4. newCurrent[q] # NoStates
    BY <2>2, <2>3 DEF NoStates
  <2> QED BY <1>2, <2>2, <2>4 DEF Stages, StagesOf
<1>3. CASE pc[w] \notin {"insert", "upsert"}
  BY <1>3 DEF WaitsFor
<1> QED BY <1>1, <1>2, <1>3

LEMMA NoCircle ==
    ASSUME TypeOK, LocalsOK, AlertInv, Stages, CheckInv,
           NEW S \in SUBSET Writers, S # {}, \A w \in S : WaitsFor(w) \cap S # {}
    PROVE  FALSE
<1> DEFINE AtRules(w) == w = Detector \/ pc[w] = "rules"
<1> DEFINE C == {c \in Batteries \X AlertTypes : \E w \in S : AtRules(w) /\ AtCheck(w, c)}
<1>1. \A w \in S : w # Detector => w \in Requests
  BY DEF Writers
<1>2. ASSUME NEW w \in S, w # Detector PROVE pc[w] \in {"insert", "upsert", "rules"}
  <2>1. PICK q \in WaitsFor(w) : q \in S
    OBVIOUS
  <2> QED BY <1>1, <1>2, <2>1, WaitsAhead
<1>3. ASSUME NEW w \in S, w # Detector, pc[w] = "upsert" PROVE \E q \in S : AtRules(q)
  <2>1. PICK q \in WaitsFor(w) : q \in S
    OBVIOUS
  <2>2. pc[q] \in Writing
    BY <1>1, <1>3, <2>1, WaitsAhead
  <2> QED BY <1>2, <2>1, <2>2 DEF Writing
<1>4. \E w \in S : AtRules(w)
  <2>1. PICK w \in S : TRUE
    OBVIOUS
  <2>2. CASE w # Detector /\ pc[w] = "insert"
    <3>1. PICK q \in WaitsFor(w) : q \in S
      OBVIOUS
    <3>2. pc[q] \in Writing \cup {"upsert"}
      BY <1>1, <2>2, <3>1, WaitsAhead
    <3> QED BY <1>2, <1>3, <3>1, <3>2 DEF Writing
  <2> QED BY <1>2, <1>3, <2>1, <2>2
<1>5. ASSUME NEW w \in S, AtRules(w)
      PROVE  \E q \in S, c \in Batteries \X AlertTypes :
                /\ AtCheck(w, c)
                /\ AtRules(q)
                /\ \E i \in AlertIds : newAlerts[q][i] # None /\ Incident(newAlerts[q][i]) = c
  <2>1. PICK q \in WaitsFor(w) : q \in S
    OBVIOUS
  <2>2. PICK c \in Batteries \X AlertTypes :
          /\ AtCheck(w, c)
          /\ q \in Writers
          /\ \E i \in AlertIds : newAlerts[q][i] # None /\ Incident(newAlerts[q][i]) = c
    BY <1>5, <2>1, WaitsAtCheck
  <2>3. newAlerts[q] # NoAlerts
    BY <2>2 DEF NoAlerts
  <2>4. AtRules(q)
    BY <1>1, <1>2, <2>1, <2>3 DEF Stages, StagesOf
  <2> QED BY <2>1, <2>2, <2>4
<1>6. C \in SUBSET (Batteries \X AlertTypes) /\ C # {}
  BY <1>4, <1>5
<1>7. PICK c \in C : \A d \in C : ~ Before(c, d)
  <2> HIDE DEF C
  <2> QED BY <1>6, LastCheck
<1>8. PICK w \in S : AtRules(w) /\ AtCheck(w, c)
  OBVIOUS
<1>9. PICK q \in S, e \in Batteries \X AlertTypes :
        /\ AtCheck(w, e)
        /\ AtRules(q)
        /\ \E i \in AlertIds : newAlerts[q][i] # None /\ Incident(newAlerts[q][i]) = e
  BY <1>5, <1>8
<1>10. e = c
  <2>1. CASE w = Detector
    <3>1. c[1] = e[1] /\ c[2] = e[2]
      <4>1. IsFirst(c[1]) /\ IsFirst(e[1]) /\ c[2] = e[2]
        BY <1>8, <1>9, <2>1 DEF AtCheck
      <4>2. c[1] \in Int /\ e[1] \in Int
        BY <1>7, <1>9, IngestionAssumption DEF IngestionAssumption
      <4> QED BY <4>1, <4>2 DEF IsFirst
    <3> QED BY <1>7, <1>9, <3>1
  <2>2. CASE w # Detector
    BY <1>1, <1>8, <1>9, <2>2, NextCheckUnique DEF AtCheck
  <2> QED BY <2>1, <2>2
<1>11. PICK i \in AlertIds : newAlerts[q][i] # None /\ Incident(newAlerts[q][i]) = c
  BY <1>9, <1>10
<1>12. PICK p \in S, d \in Batteries \X AlertTypes : AtCheck(q, d)
  BY <1>5, <1>9
<1>13. d \in C
  BY <1>9, <1>12
<1>14. Before(c, d)
  BY <1>11, <1>12, HoldsEarlier
<1> QED BY <1>7, <1>13, <1>14

\* No set of requests, with or without the detector, waits for itself, for any
\* number of requests and batteries: what makes the order of the upsert, of the
\* rules and of the detector one order is that all of them are sorted.
THEOREM NoCircularWaitHolds == Spec => []NoCircularWait
<1>1. TypeOK /\ LocalsOK /\ AlertInv /\ Stages /\ CheckInv => NoCircularWait
  BY NoCircle DEF NoCircularWait
<1> QED BY <1>1, CheckInvariant, PTL

-----------------------------------------------------------------------------
(***************************************************************************)
(* What was anomalous is an alert: open when the request is answered, and  *)
(* on record for every reading that single ingestion has stored.           *)
(***************************************************************************)
LEMMA CommitRaises ==
    ASSUME TypeOK, LocalsOK, NEW p \in Requests, ChecksOf(p), Commit(p),
           NEW b \in Batteries, NEW t \in RuleTypes,
           latest[p][b] # None, Anomalous(latest[p][b], t)
    PROVE  \E i \in AlertIds : IsOpen(alerts'[i], b, t)
<1>1. todo[p] = {} /\ pc[p] \in Writing
  BY DEF Commit, LocalsOK, ChecksOnlyAhead, Writing
<1>2. PICK i \in AlertIds : IsOpen(newAlerts[p][i], b, t)
  BY <1>1 DEF ChecksOf, RaisedOf
<1>3. alerts'[i] = newAlerts[p][i]
  BY <1>2 DEF Commit, CommitTransaction, AlertsSeenBy, IsOpen
<1> QED BY <1>2, <1>3

\* Only the last commit answers a request that is about to commit.
LEMMA AnsweredByCommit ==
    ASSUME TypeOK, [Next]_vars, NEW p \in Requests, pc[p] = "commit", pc'[p] = "done"
    PROVE  Commit(p)
<1> USE DEF locals, Goto
<1>1. CASE UNCHANGED vars \/ Detect \/ DetectorFail \/ ReadAlert \/ ResolveAlert \/ Tick
  BY <1>1 DEF vars, Detect, MarkStaleBatteriesOffline, ReadClock, RaiseOffline, CommitOffline,
     DetectorFail, ReadAlert, ResolveAlert, Tick
<1>2. CASE Crash
  BY <1>2 DEF Crash, InFlight
<1>3. ASSUME NEW q \in Requests, Arrive(q) \/ Fail(q) \/ Validate(q) \/ InsertTelemetry(q)
             \/ UpsertCurrentState(q) \/ CommitData(q) \/ EvaluateRules(q) \/ RulesEvaluated(q)
      PROVE  FALSE
  BY <1>3 DEF Arrive, Fail, Validate, InsertTelemetry, UpsertCurrentState, CommitData,
     EvaluateRules, RulesEvaluated, AfterUpsert, TypeOK
<1>4. ASSUME NEW q \in Requests, Commit(q) PROVE q = p
  BY <1>4 DEF Commit, TypeOK
<1> QED BY <1>1, <1>2, <1>3, <1>4 DEF Next, Ingest

\* When a request is answered, what its newest readings broke is an open alert.
THEOREM AnomalyOpenAtCommitHolds == Spec => AnomalyOpenAtCommit
<1> DEFINE Opens ==
      \A p \in Requests : pc[p] = "commit" /\ pc'[p] = "done" =>
        \A b \in Batteries, t \in RuleTypes :
            latest[p][b] # None /\ Anomalous(latest[p][b], t) =>
                \E i \in AlertIds : IsOpen(alerts'[i], b, t)
<1>1. TypeOK /\ LocalsOK /\ CheckInv /\ [Next]_vars => [Opens]_vars
  <2>1. TypeOK /\ LocalsOK /\ CheckInv /\ [Next]_vars => Opens
    BY AnsweredByCommit, CommitRaises DEF CheckInv
  <2> QED BY <2>1
<1>2. Spec => [][Opens]_vars
  BY <1>1, CheckInvariant, PTL DEF Spec
<1> QED BY <1>2 DEF AnomalyOpenAtCommit

-----------------------------------------------------------------------------
(***************************************************************************)
(* Single ingestion is all or nothing: the one reading of the body is what *)
(* the rules look at, and it is stored by the commit of what they raise.   *)
(***************************************************************************)
SingleKeptOf(p) == req[p].endpoint = "single" =>
    /\ Len(Events(p)) = 1
    /\ pc[p] # "commit_data"
    /\ pc[p] \in Writing => \A r \in newTelemetry[p] : latest[p][r.battery_id] = r
    /\ pc[p] # "done" => inserted[p] = {}

LEMMA SingleFrame ==
    ASSUME NEW p \in Requests, SingleKeptOf(p), req'[p] = req[p], pc'[p] = pc[p],
           newTelemetry'[p] = newTelemetry[p], latest'[p] = latest[p],
           inserted'[p] = inserted[p]
    PROVE  SingleKeptOf(p)'
BY DEF SingleKeptOf, Events

\* The upsert keeps the reading of a body that has one.
LEMMA UpsertKeepsReading ==
    ASSUME TypeOK, LocalsOK, Stages, NEW p \in Requests, UpsertCurrentState(p),
           Len(Events(p)) = 1, NEW r \in newTelemetry[p]
    PROVE  latest'[p][r.battery_id] = r
<1>1. Events(p) \in Seq(Readings)
  BY DEF TypeOK, Events
<1>2. DOMAIN Events(p) = {1}
  BY <1>1
<1>3. r \in EventRange(p)
  BY DEF Stages, StagesOf
<1>4. r = Events(p)[1]
  BY <1>2, <1>3 DEF EventRange
<1>5. r.battery_id \in Batteries
  BY <1>3 DEF LocalsOK, BodiesRegistered, Validated, UpsertCurrentState
<1>6. 1 \in Accepted(p)
  BY <1>2, <1>4 DEF Accepted, Stored
<1>7. r.battery_id \in Touched(p)
  BY <1>4, <1>6 DEF Touched
<1>8. PICK best \in [Touched(p) -> DOMAIN Events(p)] :
        latest' = [latest EXCEPT ![p] =
              [b \in Batteries |-> IF b \in Touched(p) THEN Events(p)[best[b]] ELSE None]]
  BY DEF UpsertCurrentState
<1>9. best[r.battery_id] = 1
  BY <1>2, <1>7
<1> QED BY <1>4, <1>5, <1>7, <1>8, <1>9 DEF TypeOK

LEMMA SingleSelf ==
    ASSUME TypeOK, LocalsOK, Stages, NEW p \in Requests, SingleKeptOf(p),
           Arrive(p) \/ Ingest(p) \/ Fail(p)
    PROVE  SingleKeptOf(p)'
<1> USE DEF Goto, tables, pending, locals, SingleKeptOf, Events, Writing
<1>1. StagesOf(p)
  BY DEF Stages
<1>2. CASE Arrive(p)
  BY <1>1, <1>2 DEF Arrive, TypeOK, StagesOf
<1>3. CASE Validate(p) \/ RulesEvaluated(p)
  BY <1>3 DEF Validate, RulesEvaluated, TypeOK
<1>4. CASE InsertTelemetry(p)
  BY <1>4 DEF InsertTelemetry, TypeOK
<1>5. CASE UpsertCurrentState(p)
  <2>1. Len(Events(p)) = 1 => \A r \in newTelemetry[p] : latest'[p][r.battery_id] = r
    BY <1>5, UpsertKeepsReading
  <2> QED BY <1>5, <2>1 DEF UpsertCurrentState, AfterUpsert, TypeOK
<1>6. CASE CommitData(p) \/ Commit(p)
  BY <1>6 DEF CommitData, Commit, CommitTransaction, TypeOK
<1>7. CASE Fail(p)
  BY <1>7 DEF Fail, InFlight, TypeOK
<1>8. CASE EvaluateRules(p)
  BY <1>8 DEF EvaluateRules
<1> QED BY <1>2, <1>3, <1>4, <1>5, <1>6, <1>7, <1>8 DEF Ingest

LEMMA SingleOthers ==
    ASSUME TypeOK, NEW p \in Requests, NEW q \in Requests, q # p, SingleKeptOf(q),
           Arrive(p) \/ Ingest(p) \/ Fail(p)
    PROVE  SingleKeptOf(q)'
<1> USE DEF Goto, tables, pending, locals
<1>1. CASE Arrive(p) \/ Validate(p) \/ RulesEvaluated(p) \/ EvaluateRules(p)
  BY <1>1, SingleFrame DEF Arrive, Validate, RulesEvaluated, EvaluateRules, TypeOK
<1>2. CASE InsertTelemetry(p)
  BY <1>2, SingleFrame DEF InsertTelemetry, TypeOK
<1>3. CASE UpsertCurrentState(p)
  BY <1>3, SingleFrame DEF UpsertCurrentState, TypeOK
<1>4. CASE CommitData(p) \/ Commit(p)
  BY <1>4, SingleFrame DEF CommitData, Commit, CommitTransaction, TypeOK
<1>5. CASE Fail(p)
  BY <1>5, SingleFrame DEF Fail, TypeOK
<1> QED BY <1>1, <1>2, <1>3, <1>4, <1>5 DEF Ingest

LEMMA KeptStep ==
    TypeOK /\ LocalsOK /\ Stages /\ SingleKept /\ [Next]_vars => SingleKept'
<1> SUFFICES ASSUME TypeOK, LocalsOK, Stages, SingleKept, [Next]_vars, NEW q \in Requests
             PROVE  SingleKeptOf(q)'
  BY DEF SingleKept, SingleKeptOf
<1> USE DEF tables, pending, locals
<1>1. SingleKeptOf(q)
  BY DEF SingleKept, SingleKeptOf
<1>2. CASE UNCHANGED vars \/ Detect \/ DetectorFail \/ ReadAlert \/ ResolveAlert \/ Tick
  BY <1>1, <1>2, SingleFrame DEF vars, Detect, MarkStaleBatteriesOffline, ReadClock,
     RaiseOffline, CommitOffline, DetectorFail, ReadAlert, ResolveAlert, Tick
<1>3. CASE Crash
  BY <1>1, <1>3 DEF Crash, InFlight, SingleKeptOf, Events, Writing
<1>4. CASE \E p \in Requests : Arrive(p) \/ Ingest(p) \/ Fail(p)
  BY <1>1, <1>4, SingleSelf, SingleOthers
<1> QED BY <1>2, <1>3, <1>4 DEF Next

\* Only commits store, and the last one is the only one of single ingestion.
LEMMA StoredByCommit ==
    ASSUME TypeOK, Stages, SingleKept, [Next]_vars, NEW p \in Requests,
           req'[p].endpoint = "single"
    PROVE  \/ inserted'[p] = {}
           \/ inserted'[p] = inserted[p] /\ req'[p] = req[p]
           \/ Commit(p) /\ inserted'[p] = newTelemetry[p]
<1> USE DEF Goto, tables, pending, locals
<1>1. CASE UNCHANGED vars \/ Detect \/ DetectorFail \/ ReadAlert \/ ResolveAlert \/ Tick \/ Crash
  BY <1>1 DEF vars, Detect, MarkStaleBatteriesOffline, ReadClock, RaiseOffline, CommitOffline,
     DetectorFail, ReadAlert, ResolveAlert, Tick, Crash
<1>2. ASSUME NEW q \in Requests, Fail(q) \/ Validate(q) \/ InsertTelemetry(q)
             \/ UpsertCurrentState(q) \/ EvaluateRules(q) \/ RulesEvaluated(q)
      PROVE  inserted'[p] = inserted[p] /\ req'[p] = req[p]
  BY <1>2 DEF Fail, Validate, InsertTelemetry, UpsertCurrentState, EvaluateRules, RulesEvaluated
<1>3. ASSUME NEW q \in Requests, Arrive(q)
      PROVE  \/ inserted'[p] = {}
             \/ inserted'[p] = inserted[p] /\ req'[p] = req[p]
  BY <1>3 DEF Arrive, TypeOK, Stages, StagesOf
<1>4. ASSUME NEW q \in Requests, q # p, CommitData(q) \/ Commit(q)
      PROVE  inserted'[p] = inserted[p] /\ req'[p] = req[p]
  BY <1>4 DEF CommitData, Commit, CommitTransaction, TypeOK
<1>5. ~ CommitData(p)
  BY DEF CommitData, SingleKept
<1>6. Commit(p) => inserted'[p] = newTelemetry[p]
  BY DEF Commit, CommitTransaction, TypeOK, SingleKept
<1> QED BY <1>1, <1>2, <1>3, <1>4, <1>5, <1>6 DEF Next, Ingest

LEMMA SingleStep ==
    TypeOK /\ LocalsOK /\ AlertInv /\ Stages /\ CheckInv /\ SingleInv /\ [Next]_vars => SingleInv'
<1> SUFFICES ASSUME TypeOK, LocalsOK, AlertInv, Stages, CheckInv, SingleInv, [Next]_vars
             PROVE  SingleInv'
  OBVIOUS
<1>1. SingleKept /\ SingleKept'
  BY KeptStep DEF SingleInv
<1>2. RecordContinues
  BY AlertStep
<1>3. SingleStoredWithIncident'
  <2> SUFFICES ASSUME NEW p \in Requests, req'[p].endpoint = "single",
                      NEW r \in inserted'[p], NEW t \in RuleTypes, Anomalous(r, t)
               PROVE  HasIncident(r.battery_id, t)'
    BY DEF SingleStoredWithIncident, Anomalous
  <2>1. CASE inserted'[p] = inserted[p] /\ req'[p] = req[p]
    <3>1. HasIncident(r.battery_id, t)
      BY <2>1 DEF SingleInv, SingleStoredWithIncident
    <3> QED BY <1>2, <3>1 DEF HasIncident, RecordContinues, Continues
  <2>2. CASE Commit(p) /\ inserted'[p] = newTelemetry[p]
    <3>1. req[p].endpoint = "single" /\ pc[p] \in Writing
      BY <2>2 DEF Commit, Writing
    <3>2. latest[p][r.battery_id] = r
      BY <1>1, <2>2, <3>1 DEF SingleKept
    <3>3. r \in Readings /\ r # None
      BY <2>2, IngestionAssumption DEF TypeOK, IngestionAssumption
    <3>4. r.battery_id \in Batteries
      BY <2>2 DEF Commit, Stages, StagesOf, LocalsOK, BodiesRegistered, Validated
    <3>5. PICK i \in AlertIds : IsOpen(alerts'[i], r.battery_id, t)
      BY <2>2, <3>2, <3>3, <3>4, CommitRaises DEF CheckInv
    <3> QED BY <3>5 DEF HasIncident, IsOpen
  <2> QED BY <1>1, <2>1, <2>2, StoredByCommit
<1> QED BY <1>1, <1>3 DEF SingleInv

LEMMA InitSingle == Init => SingleInv
BY DEF Init, SingleInv, SingleKept, SingleStoredWithIncident, Idle

\* Single ingestion is all or nothing: whatever fails or dies, an anomalous reading
\* that it stored has left an incident of that type.
THEOREM SingleStoredWithIncidentHolds == Spec => []SingleStoredWithIncident
<1>1. SingleInv => SingleStoredWithIncident
  BY DEF SingleInv
<1>2. Spec => []SingleInv
  BY InitSingle, SingleStep, CheckInvariant, PTL DEF Spec
<1> QED BY <1>1, <1>2, PTL
=============================================================================
