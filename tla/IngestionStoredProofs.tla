------------------------ MODULE IngestionStoredProofs ------------------------
(***************************************************************************)
(* What is stored, for every set of requests and readings: an event once,  *)
(* the idempotence that retrying producers rely on; the current state as   *)
(* the newest reading has it; and OFFLINE only after silence.              *)
(***************************************************************************)
EXTENDS IngestionProofs

\* Of two readings a statement takes from one body, with one event_id, one is
\* the first occurrence of it.
LEMMA NewRowsDistinct ==
    ASSUME TypeOK, NEW p \in Requests, NEW r \in NewRows(p), NEW s \in NewRows(p),
           r.event_id = s.event_id
    PROVE  r = s
<1>1. \A k \in DOMAIN Events(p) : k \in Nat /\ k >= 1
  BY DEF TypeOK, Events
<1>2. PICK k \in DOMAIN Events(p) :
        /\ r = Events(p)[k]
        /\ \A j \in 1..(k - 1) : Events(p)[j].event_id # Events(p)[k].event_id
  BY DEF NewRows
<1>3. PICK l \in DOMAIN Events(p) :
        /\ s = Events(p)[l]
        /\ \A j \in 1..(l - 1) : Events(p)[j].event_id # Events(p)[l].event_id
  BY DEF NewRows
<1>4. ~ (k < l)
  BY <1>1, <1>2, <1>3
<1>5. ~ (l < k)
  BY <1>1, <1>2, <1>3
<1> QED BY <1>1, <1>2, <1>3, <1>4, <1>5

LEMMA NewRowsFresh ==
    ASSUME TypeOK, NEW p \in Requests, NEW r \in NewRows(p)
    PROVE  ~ Stored(telemetry, r.event_id) /\ r \in EventRange(p)
BY DEF NewRows, EventRange

\* With its event_ids locked by nobody, a request inserts what is new to all.
LEMMA InsertKeeps ==
    ASSUME TypeOK, StoredInv, NEW p \in Requests, InsertTelemetry(p)
    PROVE  StoredInv'
<1>1. \A q \in Requests : newTelemetry'[q] = IF q = p THEN NewRows(p) ELSE newTelemetry[q]
  BY DEF InsertTelemetry, TypeOK
<1>2. UNCHANGED <<telemetry, inserted>>
  BY DEF InsertTelemetry, tables
<1>3. \A q \in Requests \ {p}, r \in NewRows(p) : ~ Stored(newTelemetry[q], r.event_id)
  BY NewRowsFresh DEF InsertTelemetry, EventHolders
<1>4. StoredOnce'
  BY <1>2 DEF StoredInv, StoredOnce
<1>5. (\A q \in Requests : \A r, s \in newTelemetry[q] : r.event_id = s.event_id => r = s)'
  BY <1>1, NewRowsDistinct DEF StoredInv
<1>6. (\A q \in Requests : \A r \in newTelemetry[q] : ~ Stored(telemetry, r.event_id))'
  BY <1>1, <1>2, NewRowsFresh DEF StoredInv, Stored
<1>7. (\A q, o \in Requests : q # o =>
          \A r \in newTelemetry[q] : ~ Stored(newTelemetry[o], r.event_id))'
  <2> SUFFICES ASSUME NEW q \in Requests, NEW o \in Requests, q # o,
                      NEW r \in newTelemetry'[q], NEW s \in newTelemetry'[o],
                      r.event_id = s.event_id
               PROVE  FALSE
    BY DEF Stored
  <2>1. CASE q = p
    BY <1>1, <1>3, <2>1 DEF Stored
  <2>2. CASE o = p
    BY <1>1, <1>3, <2>2 DEF Stored
  <2>3. CASE q # p /\ o # p
    BY <1>1, <2>3 DEF StoredInv, Stored
  <2> QED BY <2>1, <2>2, <2>3
<1> QED BY <1>4, <1>5, <1>6, <1>7 DEF StoredInv

\* A commit moves a request's rows into the table, and into its own answer.
LEMMA CommitStores ==
    ASSUME TypeOK, StoredInv, NEW p \in Requests, CommitTransaction(p)
    PROVE  StoredInv'
<1>1. telemetry' = telemetry \cup newTelemetry[p]
  BY DEF CommitTransaction
<1>2. \A q \in Requests :
         /\ inserted'[q] = IF q = p THEN inserted[p] \cup newTelemetry[p] ELSE inserted[q]
         /\ newTelemetry'[q] = IF q = p THEN {} ELSE newTelemetry[q]
  BY DEF CommitTransaction, TypeOK
<1>3. \A q \in Requests : inserted[q] \subseteq telemetry
  BY DEF StoredInv, StoredOnce
<1>4. (\A r, s \in telemetry : r.event_id = s.event_id => r = s)'
  <2> SUFFICES ASSUME NEW r \in telemetry', NEW s \in telemetry', r.event_id = s.event_id
               PROVE  r = s
    OBVIOUS
  <2> QED BY <1>1 DEF StoredInv, StoredOnce, Stored
<1>5. telemetry' = UNION {inserted'[q] : q \in Requests}
  <2>1. \A r : r \in telemetry <=> \E q \in Requests : r \in inserted[q]
    BY DEF StoredInv, StoredOnce
  <2>2. \A r : r \in telemetry' <=> \E q \in Requests : r \in inserted'[q]
    BY <1>1, <1>2, <2>1
  <2> QED BY <2>2
<1>6. \A r \in newTelemetry[p] : r \notin telemetry
  BY DEF StoredInv, Stored
<1>7. (\A q, o \in Requests : q # o => inserted[q] \cap inserted[o] = {})'
  <2> SUFFICES ASSUME NEW q \in Requests, NEW o \in Requests, q # o,
                      NEW r \in inserted'[q], r \in inserted'[o]
               PROVE  FALSE
    OBVIOUS
  <2>1. \A x, y \in Requests : x # y => inserted[x] \cap inserted[y] = {}
    BY DEF StoredInv, StoredOnce
  <2> QED BY <1>2, <1>3, <1>6, <2>1
<1>8. (\A q \in Requests : \A r, s \in newTelemetry[q] : r.event_id = s.event_id => r = s)'
  BY <1>2 DEF StoredInv
<1>9. (\A q \in Requests : \A r \in newTelemetry[q] : ~ Stored(telemetry, r.event_id))'
  <2> SUFFICES ASSUME NEW q \in Requests, NEW r \in newTelemetry'[q], NEW s \in telemetry',
                      s.event_id = r.event_id
               PROVE  FALSE
    BY DEF Stored
  <2>1. q # p /\ r \in newTelemetry[q]
    BY <1>2
  <2>2. CASE s \in telemetry
    BY <2>1, <2>2 DEF StoredInv, Stored
  <2>3. CASE s \in newTelemetry[p]
    BY <2>1, <2>3 DEF StoredInv, Stored
  <2> QED BY <1>1, <2>2, <2>3
<1>10. (\A q, o \in Requests : q # o =>
           \A r \in newTelemetry[q] : ~ Stored(newTelemetry[o], r.event_id))'
  BY <1>2 DEF StoredInv, Stored
<1> QED BY <1>4, <1>5, <1>7, <1>8, <1>9, <1>10 DEF StoredInv, StoredOnce

\* A rollback drops what was not stored; most steps touch none of it.
LEMMA OthersKeep ==
    ASSUME StoredInv, NEW S \in SUBSET Requests, UNCHANGED <<telemetry, inserted>>,
           \A q \in Requests : newTelemetry'[q] = IF q \in S THEN {} ELSE newTelemetry[q]
    PROVE  StoredInv'
<1>1. StoredOnce'
  BY DEF StoredInv, StoredOnce
<1> QED BY <1>1 DEF StoredInv, Stored

LEMMA SameKeeps ==
    ASSUME StoredInv, UNCHANGED <<telemetry, inserted, newTelemetry>>
    PROVE  StoredInv'
<1>1. {} \in SUBSET Requests
  OBVIOUS
<1> QED BY <1>1, OthersKeep

\* A step stores no event a second time, committed or not.
THEOREM StoredStep == TypeOK /\ StoredInv /\ [Next]_vars => StoredInv'
<1> SUFFICES ASSUME TypeOK, StoredInv, [Next]_vars PROVE StoredInv'
  OBVIOUS
<1> USE DEF tables, pending, locals
<1>1. CASE UNCHANGED vars
  BY <1>1, SameKeeps DEF vars
<1>2. ASSUME NEW p \in Requests,
             Arrive(p) \/ Validate(p) \/ UpsertCurrentState(p) \/ EvaluateRules(p)
             \/ RulesEvaluated(p)
      PROVE  StoredInv'
  BY <1>2, SameKeeps DEF Arrive, Validate, UpsertCurrentState, EvaluateRules, RulesEvaluated
<1>3. ASSUME NEW p \in Requests, CommitData(p) \/ Commit(p) PROVE StoredInv'
  BY <1>3, CommitStores DEF CommitData, Commit
<1>4. ASSUME NEW p \in Requests, Fail(p) PROVE StoredInv'
  <2>1. \A q \in Requests : newTelemetry'[q] = IF q \in {p} THEN {} ELSE newTelemetry[q]
    BY <1>4 DEF Fail, TypeOK
  <2>2. {p} \in SUBSET Requests
    OBVIOUS
  <2>3. UNCHANGED <<telemetry, inserted>>
    BY <1>4 DEF Fail
  <2> QED BY <2>1, <2>2, <2>3, OthersKeep
<1>5. CASE Detect \/ DetectorFail
  BY <1>5, SameKeeps DEF Detect, MarkStaleBatteriesOffline, ReadClock, RaiseOffline,
     CommitOffline, DetectorFail
<1>6. CASE ReadAlert \/ ResolveAlert \/ Tick
  BY <1>6, SameKeeps DEF ReadAlert, ResolveAlert, Tick
<1>7. CASE Crash
  <2>1. \A q \in Requests : newTelemetry'[q] = IF q \in Requests THEN {} ELSE newTelemetry[q]
    BY <1>7 DEF Crash
  <2>2. UNCHANGED <<telemetry, inserted>>
    BY <1>7 DEF Crash
  <2> QED BY <2>1, <2>2, OthersKeep
<1> QED BY <1>1, <1>2, <1>3, <1>4, <1>5, <1>6, <1>7, InsertKeeps DEF Next, Ingest

LEMMA InitStored == Init => StoredInv
BY DEF Init, StoredInv, StoredOnce, Stored

\* An event_id is stored once, and one request answers for it, for any number of
\* requests, retries, failures and crashes.
THEOREM StoredOnceHolds == Spec => []StoredOnce
<1>1. Spec => [](TypeOK /\ LocalsOK /\ StoredInv)
  BY InitType, InitStored, TypeStep, StoredStep, PTL DEF Spec
<1>2. StoredInv => StoredOnce
  BY DEF StoredInv
<1> QED BY <1>1, <1>2, PTL

-----------------------------------------------------------------------------
(***************************************************************************)
(* The current state is that of the newest stored reading.  What makes it  *)
(* so is said of the open transactions: a request holds the row of every   *)
(* battery it has new readings of, nobody else changes that row, and what  *)
(* it will leave there is what the newest of those readings makes of it.   *)
(***************************************************************************)
LEMMA ReadingRow ==
    ASSUME NEW r \in Readings
    PROVE  /\ r.timestamp \in Int
           /\ RowOf(r) \in StateRow
           /\ RowOf(r).last_seen = r.timestamp
           /\ RowOf(r).status # "OFFLINE"
           /\ RowOf(r) # None
<1>1. r \in Reading
  BY IngestionAssumption DEF IngestionAssumption
<1>2. RowOf(r) \in StateRow
  BY <1>1 DEF RowOf, Reading, StateRow
<1>3. RowOf(r) # None
  BY <1>2, IngestionAssumption DEF IngestionAssumption
<1> QED BY <1>1, <1>2, <1>3 DEF RowOf, Reading, TelemetryStatus

LEMMA MarkedRow ==
    ASSUME NEW row \in StateRow
    PROVE  /\ MarkedOffline(row) \in StateRow
           /\ MarkedOffline(row).last_seen = row.last_seen
           /\ MarkedOffline(row).status = "OFFLINE"
           /\ MarkedOffline(row) # None
           /\ MarkedOffline(MarkedOffline(row)) = MarkedOffline(row)
<1>1. MarkedOffline(row) \in StateRow
  BY DEF MarkedOffline, StateRow
<1>2. MarkedOffline(row) # None
  BY <1>1, IngestionAssumption DEF IngestionAssumption
<1> QED BY <1>1, <1>2 DEF MarkedOffline, StateRow

\* With one reading per event_id in a body, what passes the filter is what this
\* request has inserted.
LEMMA AcceptedAreNew ==
    ASSUME BodiesNameReadings, TypeOK, Stages, NEW p \in Requests, pc[p] = "upsert"
    PROVE  /\ \A k \in Accepted(p) : Events(p)[k] \in newTelemetry[p]
           /\ \A r \in newTelemetry[p] : \E k \in Accepted(p) : r = Events(p)[k]
<1>1. /\ Events(p) \in Payloads
      /\ inserted[p] = {}
      /\ newTelemetry[p] \subseteq EventRange(p)
  BY DEF Stages, StagesOf
<1>2. \A r \in newTelemetry[p] : \E k \in DOMAIN Events(p) : r = Events(p)[k]
  BY <1>1 DEF EventRange
<1>3. ASSUME NEW k \in Accepted(p) PROVE Events(p)[k] \in newTelemetry[p]
  <2>1. PICK s \in newTelemetry[p] : s.event_id = Events(p)[k].event_id
    BY <1>1 DEF Accepted, Stored
  <2>2. PICK j \in DOMAIN Events(p) : s = Events(p)[j]
    BY <1>2
  <2>3. k \in DOMAIN Events(p)
    BY DEF Accepted
  <2> QED BY <1>1, <2>1, <2>2, <2>3 DEF BodiesNameReadings
<1>4. ASSUME NEW r \in newTelemetry[p] PROVE \E k \in Accepted(p) : r = Events(p)[k]
  <2>1. PICK k \in DOMAIN Events(p) : r = Events(p)[k]
    BY <1>2
  <2>2. k \in Accepted(p)
    BY <2>1 DEF Accepted, Stored
  <2> QED BY <2>1, <2>2
<1> QED BY <1>3, <1>4

\* The upsert locks the rows of the batteries that have new readings, and no
\* others, and leaves in each what the newest of those readings makes of it.
LEMMA UpsertTakesNewest ==
    ASSUME BodiesNameReadings, TypeOK, LocalsOK, Stages, NEW p \in Requests,
           UpsertCurrentState(p), NEW b \in Batteries
    PROVE  /\ newCurrent'[p][b] # None =>
                 \E r \in newTelemetry[p] :
                    /\ NewestOf(r, RowsOf(b, newTelemetry[p]))
                    /\ newCurrent'[p][b] = Upserted(current[b], r)
           /\ RowsOf(b, newTelemetry[p]) # {} => newCurrent'[p][b] # None
           /\ newCurrent'[p][b] # None => b \in Touched(p)
<1> USE DEF UpsertCurrentState
<1>1. PICK best \in [Touched(p) -> DOMAIN Events(p)] :
        /\ \A c \in Touched(p) : IsLatest(p, best[c]) /\ Events(p)[best[c]].battery_id = c
        /\ newCurrent' = [newCurrent EXCEPT ![p] =
              [c \in Batteries |-> IF c \in Touched(p)
                                   THEN Upserted(current[c], Events(p)[best[c]])
                                   ELSE None]]
  OBVIOUS
<1>2. newCurrent'[p][b] = IF b \in Touched(p) THEN Upserted(current[b], Events(p)[best[b]])
                          ELSE None
  BY <1>1 DEF TypeOK
<1>3. CASE b \notin Touched(p)
  <2>1. RowsOf(b, newTelemetry[p]) = {}
    BY <1>3, AcceptedAreNew DEF RowsOf, Touched
  <2> QED BY <1>2, <1>3, <2>1
<1>4. CASE b \in Touched(p)
  <2> DEFINE r == Events(p)[best[b]]
  <2>1. best[b] \in Accepted(p) /\ r.battery_id = b
    BY <1>1, <1>4 DEF IsLatest
  <2>2. r \in newTelemetry[p]
    BY <2>1, AcceptedAreNew
  <2>3. r \in Readings
    BY <2>2 DEF TypeOK
  <2>4. \A s \in RowsOf(b, newTelemetry[p]) : s.timestamp <= r.timestamp
    <3> SUFFICES ASSUME NEW s \in newTelemetry[p], s.battery_id = b
                 PROVE  s.timestamp <= r.timestamp
      BY DEF RowsOf
    <3>1. PICK j \in Accepted(p) : s = Events(p)[j]
      BY AcceptedAreNew
    <3>2. s \in Readings
      BY DEF TypeOK
    <3>3. s.timestamp \in Int /\ r.timestamp \in Int
      BY <2>3, <3>2, ReadingRow
    <3>4. s.timestamp < r.timestamp \/ s.timestamp = r.timestamp
      BY <1>1, <1>4, <2>1, <3>1 DEF IsLatest
    <3> QED BY <3>3, <3>4
  <2>5. NewestOf(r, RowsOf(b, newTelemetry[p]))
    BY <2>1, <2>2, <2>4 DEF NewestOf, RowsOf
  <2>6. Upserted(current[b], r) # None
    BY <2>3, ReadingRow DEF Upserted
  <2> QED BY <1>2, <1>4, <2>2, <2>5, <2>6
<1> QED BY <1>3, <1>4

\* A newer row of the table stands, an older one makes way: either way the row
\* that a commit leaves is that of the newest reading of both.
LEMMA NewestOfBoth ==
    ASSUME TypeOK, NEW b \in Batteries, NEW rows \in SUBSET Readings,
           \A s \in rows : s.battery_id = b,
           NEW r, NewestOf(r, rows),
           RowsOf(b, telemetry) = {} <=> current[b] = None,
           RowsOf(b, telemetry) # {} => \E o \in RowsOf(b, telemetry) :
              /\ NewestOf(o, RowsOf(b, telemetry))
              /\ current[b] \in {RowOf(o), MarkedOffline(RowOf(o))}
    PROVE  \E o \in RowsOf(b, telemetry) \cup rows :
              /\ NewestOf(o, RowsOf(b, telemetry) \cup rows)
              /\ Upserted(current[b], r) \in {RowOf(o), MarkedOffline(RowOf(o))}
<1>1. r \in rows /\ r \in Readings /\ \A s \in rows : s.timestamp <= r.timestamp
  BY DEF NewestOf
<1>2. RowsOf(b, telemetry) \subseteq Readings
  BY DEF TypeOK, RowsOf
<1>3. \A s \in RowsOf(b, telemetry) \cup rows : s.timestamp \in Int
  BY <1>2, ReadingRow
<1>4. CASE current[b] = None
  <2>1. RowsOf(b, telemetry) = {}
    BY <1>4
  <2> QED BY <1>1, <1>4, <2>1 DEF NewestOf, Upserted
<1>5. CASE current[b] # None
  <2>1. PICK o \in RowsOf(b, telemetry) :
          /\ \A s \in RowsOf(b, telemetry) : s.timestamp <= o.timestamp
          /\ current[b] \in {RowOf(o), MarkedOffline(RowOf(o))}
    BY <1>5 DEF NewestOf
  <2>2. o \in Readings /\ current[b].last_seen = o.timestamp
    BY <1>2, <2>1, ReadingRow, MarkedRow
  <2>3. CASE o.timestamp > r.timestamp
    <3>1. NewestOf(o, RowsOf(b, telemetry) \cup rows)
      BY <1>1, <1>3, <2>1, <2>3 DEF NewestOf
    <3>2. Upserted(current[b], r) = current[b]
      BY <1>5, <2>2, <2>3 DEF Upserted
    <3> QED BY <2>1, <3>1, <3>2
  <2>4. CASE ~ o.timestamp > r.timestamp
    <3>1. NewestOf(r, RowsOf(b, telemetry) \cup rows)
      BY <1>1, <1>3, <2>1, <2>4 DEF NewestOf
    <3>2. Upserted(current[b], r) = RowOf(r)
      BY <2>2, <2>4 DEF Upserted
    <3> QED BY <1>1, <3>1, <3>2
  <2> QED BY <2>3, <2>4
<1> QED BY <1>4, <1>5

\* The table's promise for one battery, in the terms of this proof.
CurrentOf(b) ==
    /\ RowsOf(b, telemetry) = {} <=> current[b] = None
    /\ RowsOf(b, telemetry) # {} => \E o \in RowsOf(b, telemetry) :
          /\ NewestOf(o, RowsOf(b, telemetry))
          /\ current[b] \in {RowOf(o), MarkedOffline(RowOf(o))}

LEMMA CurrentByBattery ==
    /\ CurrentIsNewest <=> \A b \in Batteries : CurrentOf(b)
    /\ CurrentIsNewest' <=> \A b \in Batteries : CurrentOf(b)'
<1>1. CurrentIsNewest <=> \A b \in Batteries : CurrentOf(b)
  BY SMT DEF CurrentIsNewest, CurrentOf, RowsOf, NewestOf
<1>2. CurrentIsNewest' <=> \A b \in Batteries : CurrentOf(b)'
  BY SMT DEF CurrentIsNewest, CurrentOf, RowsOf, NewestOf
<1> QED BY <1>1, <1>2

LEMMA CommitNewest ==
    ASSUME TypeOK, CurrentInv, NEW p \in Requests, pc[p] \in Writing, CommitTransaction(p),
           \A q \in Requests \ {p} : pc'[q] = pc[q]
    PROVE  RowLocksExclusive' /\ PendingNewest' /\ CurrentIsNewest'
<1>1. /\ \A q \in Requests :
            /\ newCurrent'[q] = IF q = p THEN NoStates ELSE newCurrent[q]
            /\ newTelemetry'[q] = IF q = p THEN {} ELSE newTelemetry[q]
      /\ telemetry' = telemetry \cup newTelemetry[p]
      /\ \A b \in Batteries :
            current'[b] = IF newCurrent[p][b] # None THEN newCurrent[p][b] ELSE current[b]
  BY DEF CommitTransaction, TypeOK
<1>2. RowLocksExclusive'
  BY <1>1 DEF CurrentInv, RowLocksExclusive, NoStates
<1>3. CurrentIsNewest'
  <2> SUFFICES ASSUME NEW b \in Batteries PROVE CurrentOf(b)'
    BY CurrentByBattery
  <2> DEFINE new == RowsOf(b, newTelemetry[p])
  <2>1. CurrentOf(b)
    BY CurrentByBattery DEF CurrentInv
  <2>2. RowsOf(b, telemetry') = RowsOf(b, telemetry) \cup new
    BY <1>1 DEF RowsOf
  <2>3. CASE newCurrent[p][b] = None
    <3>1. new = {}
      BY <2>3 DEF CurrentInv, PendingNewest
    <3> QED BY <1>1, <2>1, <2>2, <2>3, <3>1 DEF CurrentOf
  <2>4. CASE newCurrent[p][b] # None
    <3>1. PICK r \in newTelemetry[p] :
            NewestOf(r, new) /\ newCurrent[p][b] = Upserted(current[b], r)
      BY <2>4 DEF CurrentInv, PendingNewest
    <3>2. new \in SUBSET Readings /\ \A s \in new : s.battery_id = b
      BY DEF TypeOK, RowsOf
    <3>3. PICK o \in RowsOf(b, telemetry) \cup new :
            /\ NewestOf(o, RowsOf(b, telemetry) \cup new)
            /\ Upserted(current[b], r) \in {RowOf(o), MarkedOffline(RowOf(o))}
      BY <2>1, <3>1, <3>2, NewestOfBoth DEF CurrentOf
    <3>4. current'[b] = Upserted(current[b], r)
      BY <1>1, <2>4, <3>1
    <3>5. current'[b] # None
      BY <1>1, <2>4
    <3> QED BY <2>2, <3>3, <3>4, <3>5 DEF CurrentOf
  <2> QED BY <2>3, <2>4
<1>4. PendingNewest'
  <2> SUFFICES ASSUME NEW q \in Requests, NEW b \in Batteries
               PROVE  /\ newCurrent'[q][b] # None =>
                            \E r \in newTelemetry'[q] :
                              /\ NewestOf(r, RowsOf(b, newTelemetry'[q]))
                              /\ newCurrent'[q][b] = Upserted(current'[b], r)
                      /\ pc'[q] \in Writing /\ RowsOf(b, newTelemetry'[q]) # {} =>
                            newCurrent'[q][b] # None
    BY DEF PendingNewest, RowsOf, NewestOf, Upserted, RowOf
  <2>1. CASE q = p
    BY <1>1, <2>1 DEF NoStates, RowsOf
  <2>2. CASE q # p
    <3>1. newCurrent[q][b] # None => current'[b] = current[b]
      BY <1>1, <2>2 DEF CurrentInv, RowLocksExclusive
    <3>2. pc'[q] \in Writing => pc[q] \in Writing
      BY <2>2
    <3> QED BY <1>1, <2>2, <3>1, <3>2 DEF CurrentInv, PendingNewest
  <2> QED BY <2>1, <2>2
<1> QED BY <1>2, <1>3, <1>4

\* A request whose own writes stay, or are all dropped, while the rows it has
\* locked do not change.
LEMMA PendingFrame ==
    ASSUME RowLocksExclusive, PendingNewest,
           \A q \in Requests :
              \/ /\ newCurrent'[q] = NoStates
                 /\ newTelemetry'[q] = {}
              \/ /\ newCurrent'[q] = newCurrent[q]
                 /\ newTelemetry'[q] = newTelemetry[q]
                 /\ pc'[q] \in Writing => pc[q] \in Writing \/ newTelemetry[q] = {},
           \A q \in Requests, b \in Batteries : newCurrent'[q][b] # None => current'[b] = current[b]
    PROVE  RowLocksExclusive' /\ PendingNewest'
<1>1. RowLocksExclusive'
  BY DEF RowLocksExclusive, NoStates
<1>2. ASSUME NEW q \in Requests, NEW b \in Batteries, newCurrent'[q][b] # None
      PROVE  \E r \in newTelemetry'[q] :
                /\ NewestOf(r, RowsOf(b, newTelemetry'[q]))
                /\ newCurrent'[q][b] = Upserted(current'[b], r)
  <2>1. newCurrent'[q] = newCurrent[q] /\ newTelemetry'[q] = newTelemetry[q]
    BY <1>2 DEF NoStates
  <2> QED BY <1>2, <2>1 DEF PendingNewest
<1>3. ASSUME NEW q \in Requests, NEW b \in Batteries,
             pc'[q] \in Writing, RowsOf(b, newTelemetry'[q]) # {}
      PROVE  newCurrent'[q][b] # None
  <2>1. newTelemetry'[q] # {}
    BY <1>3 DEF RowsOf
  <2> QED BY <1>3, <2>1 DEF PendingNewest
<1> QED BY <1>1, <1>2, <1>3 DEF PendingNewest, RowsOf, NewestOf, Upserted, RowOf

LEMMA InsertNewest ==
    ASSUME TypeOK, CurrentInv, NEW p \in Requests, InsertTelemetry(p)
    PROVE  RowLocksExclusive' /\ PendingNewest'
<1> USE DEF InsertTelemetry, Goto, tables
<1>1. newCurrent[p] = NoStates
  BY DEF CurrentInv, Stages, StagesOf, Writing
<1>2. /\ UNCHANGED <<newCurrent, current>>
      /\ \A q \in Requests : newTelemetry'[q] = IF q = p THEN NewRows(p) ELSE newTelemetry[q]
      /\ \A q \in Requests : q # p => pc'[q] = pc[q]
      /\ pc'[p] = IF NewRows(p) = {} THEN "commit" ELSE "upsert"
  BY DEF TypeOK
<1>3. RowLocksExclusive'
  BY <1>2 DEF CurrentInv, RowLocksExclusive
<1>4. ASSUME NEW q \in Requests, NEW b \in Batteries, newCurrent'[q][b] # None
      PROVE  \E r \in newTelemetry'[q] :
                /\ NewestOf(r, RowsOf(b, newTelemetry'[q]))
                /\ newCurrent'[q][b] = Upserted(current'[b], r)
  <2>1. q # p
    BY <1>1, <1>2, <1>4 DEF NoStates
  <2> QED BY <1>2, <1>4, <2>1 DEF CurrentInv, PendingNewest
<1>5. ASSUME NEW q \in Requests, NEW b \in Batteries,
             pc'[q] \in Writing, RowsOf(b, newTelemetry'[q]) # {}
      PROVE  newCurrent'[q][b] # None
  <2>1. newTelemetry'[q] # {}
    BY <1>5 DEF RowsOf
  <2>2. q # p
    BY <1>2, <1>5, <2>1 DEF Writing
  <2> QED BY <1>2, <1>5, <2>2 DEF CurrentInv, PendingNewest
<1> QED BY <1>3, <1>4, <1>5 DEF PendingNewest, RowsOf, NewestOf, Upserted, RowOf

LEMMA UpsertNewest ==
    ASSUME BodiesNameReadings, TypeOK, LocalsOK, CurrentInv, NEW p \in Requests,
           UpsertCurrentState(p)
    PROVE  RowLocksExclusive' /\ PendingNewest'
<1>1. /\ UNCHANGED <<newTelemetry, current>>
      /\ \A q \in Requests : q # p => newCurrent'[q] = newCurrent[q] /\ pc'[q] = pc[q]
      /\ \A q \in Requests, b \in Touched(p) : q # p => newCurrent[q][b] = None
  BY DEF UpsertCurrentState, RowHolders, Goto, tables, TypeOK
<1>2. \A b \in Batteries :
        /\ newCurrent'[p][b] # None =>
              \E r \in newTelemetry[p] :
                 /\ NewestOf(r, RowsOf(b, newTelemetry[p]))
                 /\ newCurrent'[p][b] = Upserted(current[b], r)
        /\ RowsOf(b, newTelemetry[p]) # {} => newCurrent'[p][b] # None
        /\ newCurrent'[p][b] # None => b \in Touched(p)
  BY UpsertTakesNewest DEF CurrentInv
<1>3. RowLocksExclusive'
  <2> SUFFICES ASSUME NEW q \in Requests, NEW o \in Requests, NEW b \in Batteries,
                      newCurrent'[q][b] # None, newCurrent'[o][b] # None
               PROVE  q = o
    BY DEF RowLocksExclusive
  <2> QED BY <1>1, <1>2 DEF CurrentInv, RowLocksExclusive
<1>4. ASSUME NEW q \in Requests, NEW b \in Batteries, newCurrent'[q][b] # None
      PROVE  \E r \in newTelemetry'[q] :
                /\ NewestOf(r, RowsOf(b, newTelemetry'[q]))
                /\ newCurrent'[q][b] = Upserted(current'[b], r)
  BY <1>1, <1>2, <1>4 DEF CurrentInv, PendingNewest
<1>5. ASSUME NEW q \in Requests, NEW b \in Batteries,
             pc'[q] \in Writing, RowsOf(b, newTelemetry'[q]) # {}
      PROVE  newCurrent'[q][b] # None
  BY <1>1, <1>2, <1>5 DEF CurrentInv, PendingNewest
<1> QED BY <1>3, <1>4, <1>5 DEF PendingNewest, RowsOf, NewestOf, Upserted, RowOf

\* The detector changes only rows that nobody has locked.
LEMMA MarkNewest ==
    ASSUME TypeOK, CurrentInv, MarkStaleBatteriesOffline
    PROVE  RowLocksExclusive' /\ PendingNewest' /\ CurrentIsNewest'
<1>1. /\ UNCHANGED <<telemetry, newTelemetry, newCurrent, pc>>
      /\ \A b \in Batteries : current'[b] = IF b \in StaleBatteries
                                            THEN MarkedOffline(current[b]) ELSE current[b]
  BY DEF MarkStaleBatteriesOffline, pending, locals
<1>2. \A q \in Requests, b \in Batteries : newCurrent[q][b] # None => current'[b] = current[b]
  BY <1>1 DEF StaleBatteries, RowLocked
<1>3. RowLocksExclusive' /\ PendingNewest'
  BY <1>1, <1>2, PendingFrame DEF CurrentInv
<1>4. ASSUME NEW b \in Batteries PROVE CurrentOf(b)'
  <2>1. CurrentOf(b)
    BY CurrentByBattery DEF CurrentInv
  <2>2. CASE b \notin StaleBatteries
    BY <1>1, <2>1, <2>2 DEF CurrentOf, RowsOf, NewestOf
  <2>3. CASE b \in StaleBatteries
    <3>1. current[b] # None /\ current'[b] = MarkedOffline(current[b])
      BY <1>1, <2>3 DEF StaleBatteries, IsStale
    <3>2. PICK o \in RowsOf(b, telemetry) :
            /\ NewestOf(o, RowsOf(b, telemetry))
            /\ current[b] \in {RowOf(o), MarkedOffline(RowOf(o))}
      BY <2>1, <3>1 DEF CurrentOf
    <3>3. o \in Readings
      BY DEF RowsOf, TypeOK
    <3>4. RowOf(o) \in StateRow
      BY <3>3, ReadingRow
    <3>5. current'[b] = MarkedOffline(RowOf(o)) /\ current'[b] # None
      BY <3>1, <3>2, <3>4, MarkedRow
    <3>6. RowsOf(b, telemetry)' = RowsOf(b, telemetry)
      BY <1>1 DEF RowsOf
    <3> QED BY <3>2, <3>5, <3>6 DEF CurrentOf
  <2> QED BY <2>2, <2>3
<1> QED BY <1>3, <1>4, CurrentByBattery

LEMMA SameNewest ==
    ASSUME CurrentIsNewest, UNCHANGED <<telemetry, current>>
    PROVE  CurrentIsNewest'
BY DEF CurrentIsNewest, RowOf, MarkedOffline

\* A step keeps the current state at the newest reading, committed or not.
THEOREM CurrentStep ==
    ASSUME BodiesNameReadings
    PROVE  TypeOK /\ LocalsOK /\ CurrentInv /\ [Next]_vars => CurrentInv'
<1> SUFFICES ASSUME TypeOK, LocalsOK, CurrentInv, [Next]_vars PROVE CurrentInv'
  OBVIOUS
<1>1. Stages'
  BY StagesStep DEF CurrentInv
<1>2. RowLocksExclusive /\ PendingNewest /\ CurrentIsNewest /\ Stages
  BY DEF CurrentInv
<1> USE DEF tables, pending, locals, Goto
<1>3. CASE UNCHANGED vars
  BY <1>1, <1>2, <1>3, SameNewest, PendingFrame DEF vars, CurrentInv
<1>4. ASSUME NEW p \in Requests, Arrive(p) \/ Validate(p) \/ EvaluateRules(p) \/ RulesEvaluated(p)
      PROVE  CurrentInv'
  <2>1. UNCHANGED <<telemetry, current, newTelemetry, newCurrent>>
    BY <1>4 DEF Arrive, Validate, EvaluateRules, RulesEvaluated
  <2>2. \A q \in Requests : pc'[q] \in Writing => pc[q] \in Writing
    BY <1>4 DEF Arrive, Validate, EvaluateRules, RulesEvaluated, TypeOK, Writing
  <2> QED BY <1>1, <1>2, <2>1, <2>2, SameNewest, PendingFrame DEF CurrentInv
<1>5. ASSUME NEW p \in Requests, InsertTelemetry(p) PROVE CurrentInv'
  BY <1>1, <1>2, <1>5, InsertNewest, SameNewest DEF InsertTelemetry, CurrentInv
<1>6. ASSUME NEW p \in Requests, UpsertCurrentState(p) PROVE CurrentInv'
  BY <1>1, <1>2, <1>6, UpsertNewest, SameNewest DEF UpsertCurrentState, CurrentInv
<1>7. ASSUME NEW p \in Requests, CommitData(p) \/ Commit(p) PROVE CurrentInv'
  <2>1. pc[p] \in Writing /\ CommitTransaction(p) /\ \A q \in Requests \ {p} : pc'[q] = pc[q]
    BY <1>7 DEF CommitData, Commit, Writing, TypeOK
  <2> QED BY <1>1, <2>1, CommitNewest DEF CurrentInv
<1>8. ASSUME NEW p \in Requests, Fail(p) PROVE CurrentInv'
  <2>1. UNCHANGED <<telemetry, current>>
    BY <1>8 DEF Fail
  <2>2. \A q \in Requests :
          /\ q = p => newCurrent'[q] = NoStates /\ newTelemetry'[q] = {}
          /\ q # p => /\ newCurrent'[q] = newCurrent[q] /\ newTelemetry'[q] = newTelemetry[q]
                      /\ pc'[q] = pc[q]
    BY <1>8 DEF Fail, TypeOK
  <2> QED BY <1>1, <1>2, <2>1, <2>2, SameNewest, PendingFrame DEF CurrentInv
<1>9. CASE MarkStaleBatteriesOffline
  BY <1>1, <1>9, MarkNewest DEF CurrentInv
<1>10. CASE ReadClock \/ RaiseOffline \/ CommitOffline \/ DetectorFail \/ ReadAlert
            \/ ResolveAlert \/ Tick
  <2>1. UNCHANGED <<telemetry, current, newTelemetry, newCurrent, pc>>
    BY <1>10 DEF ReadClock, RaiseOffline, CommitOffline, DetectorFail, ReadAlert, ResolveAlert, Tick
  <2> QED BY <1>1, <1>2, <2>1, SameNewest, PendingFrame DEF CurrentInv
<1>11. CASE Crash
  <2>1. UNCHANGED <<telemetry, current>>
    BY <1>11 DEF Crash
  <2>2. \A q \in Requests : newCurrent'[q] = NoStates /\ newTelemetry'[q] = {}
    BY <1>11 DEF Crash
  <2>3. \A q \in Requests, b \in Batteries : newCurrent'[q][b] = None
    BY <2>2 DEF NoStates
  <2> QED BY <1>1, <1>2, <2>1, <2>2, <2>3, SameNewest, PendingFrame DEF CurrentInv
<1> QED BY <1>3, <1>4, <1>5, <1>6, <1>7, <1>8, <1>9, <1>10, <1>11 DEF Next, Ingest, Detect

LEMMA InitCurrent == Init => CurrentInv
<1> SUFFICES ASSUME Init PROVE CurrentInv
  OBVIOUS
<1>1. RowLocksExclusive /\ PendingNewest /\ CurrentIsNewest
  BY DEF Init, RowLocksExclusive, PendingNewest, CurrentIsNewest, NoStates, RowsOf
<1> QED BY <1>1, InitStages DEF CurrentInv

\* The current state never jumps back, never runs ahead and is lost to no
\* concurrent commit: it is the row of the newest stored reading, with or
\* without the offline mark, in every reachable state.
THEOREM CurrentIsNewestHolds ==
    ASSUME BodiesNameReadings
    PROVE  Spec => []CurrentIsNewest
<1>1. Spec => [](TypeOK /\ LocalsOK /\ CurrentInv)
  BY InitType, InitCurrent, TypeStep, CurrentStep, PTL DEF Spec
<1>2. CurrentInv => CurrentIsNewest
  BY DEF CurrentInv
<1> QED BY <1>1, <1>2, PTL

\* Only a commit takes the offline mark off, and it does so for a reading that
\* was not stored before: what it overwrites is the row it has locked.
LEMMA CommitRecovers ==
    ASSUME TypeOK, StoredInv, CurrentInv, NEW p \in Requests, CommitTransaction(p),
           NEW b \in Batteries, current[b] # None, current[b].status = "OFFLINE",
           current'[b].status # "OFFLINE"
    PROVE  \E r \in telemetry' \ telemetry : r.battery_id = b /\ current'[b] = RowOf(r)
<1>1. /\ telemetry' = telemetry \cup newTelemetry[p]
      /\ current'[b] = IF newCurrent[p][b] # None THEN newCurrent[p][b] ELSE current[b]
  BY DEF CommitTransaction
<1>2. newCurrent[p][b] # None /\ current'[b] = newCurrent[p][b]
  BY <1>1
<1>3. PICK r \in newTelemetry[p] :
        r \in RowsOf(b, newTelemetry[p]) /\ newCurrent[p][b] = Upserted(current[b], r)
  BY <1>2 DEF CurrentInv, PendingNewest, NewestOf
<1>4. current'[b] = RowOf(r)
  BY <1>2, <1>3 DEF Upserted
<1>5. r \notin telemetry
  BY DEF StoredInv, Stored
<1> QED BY <1>1, <1>3, <1>4, <1>5 DEF RowsOf

\* A battery leaves OFFLINE only by a reading stored in that very step.
THEOREM RecoveryNeedsReadingHolds ==
    ASSUME BodiesNameReadings
    PROVE  Spec => RecoveryNeedsReading
<1> DEFINE Recovers ==
      \A b \in Batteries :
        /\ current[b] # None /\ current[b].status = "OFFLINE"
        /\ current'[b].status # "OFFLINE"
        => \E r \in telemetry' \ telemetry : r.battery_id = b /\ current'[b] = RowOf(r)
<1>1. TypeOK /\ StoredInv /\ CurrentInv /\ [Next]_vars => Recovers
  <2> SUFFICES ASSUME TypeOK, StoredInv, CurrentInv, [Next]_vars, NEW b \in Batteries,
                      current[b] # None, current[b].status = "OFFLINE",
                      current'[b].status # "OFFLINE"
               PROVE  \E r \in telemetry' \ telemetry :
                          r.battery_id = b /\ current'[b] = RowOf(r)
    OBVIOUS
  <2> USE DEF tables
  <2>1. CASE UNCHANGED current
    BY <2>1
  <2>2. ASSUME NEW p \in Requests, CommitData(p) \/ Commit(p)
        PROVE  \E r \in telemetry' \ telemetry : r.battery_id = b /\ current'[b] = RowOf(r)
    <3>1. CommitTransaction(p)
      BY <2>2 DEF CommitData, Commit
    <3> QED BY <3>1, CommitRecovers
  <2>3. CASE MarkStaleBatteriesOffline
    <3>1. current'[b] = current[b]
      BY <2>3 DEF MarkStaleBatteriesOffline, StaleBatteries, IsStale
    <3> QED BY <3>1
  <2>4. CASE UNCHANGED vars
    BY <2>1, <2>4 DEF vars
  <2>5. ASSUME NEW p \in Requests,
               \/ Arrive(p) \/ Validate(p) \/ InsertTelemetry(p) \/ UpsertCurrentState(p)
               \/ EvaluateRules(p) \/ RulesEvaluated(p) \/ Fail(p)
        PROVE  UNCHANGED current
    BY <2>5 DEF Arrive, Validate, InsertTelemetry, UpsertCurrentState, EvaluateRules,
       RulesEvaluated, Fail
  <2>6. CASE \/ ReadClock \/ RaiseOffline \/ CommitOffline \/ DetectorFail \/ ReadAlert
             \/ ResolveAlert \/ Crash \/ Tick
    BY <2>1, <2>6 DEF ReadClock, RaiseOffline, CommitOffline, DetectorFail, ReadAlert,
       ResolveAlert, Crash, Tick
  <2> QED BY <2>1, <2>2, <2>3, <2>4, <2>5, <2>6 DEF Next, Ingest, Detect
<1>2. Spec => [](TypeOK /\ LocalsOK /\ StoredInv /\ CurrentInv)
  BY InitType, InitStored, InitCurrent, TypeStep, StoredStep, CurrentStep, PTL DEF Spec
<1>3. Recovers => [Recovers]_vars
  OBVIOUS
<1> QED BY <1>1, <1>2, PTL DEF Spec, RecoveryNeedsReading

-----------------------------------------------------------------------------
(***************************************************************************)
(* OFFLINE means silent: an OFFLINE row is old when it is written, and the *)
(* clock only moves on.                                                    *)
(***************************************************************************)
LEMMA SilentUpsert ==
    ASSUME TypeOK, NEW b \in Batteries, SilentRow(current[b]), NEW r \in Readings
    PROVE  SilentRow(Upserted(current[b], r))
BY ReadingRow DEF SilentRow, Upserted

LEMMA SilentLater ==
    ASSUME TypeOK, now' \in Int, now <= now', NEW row \in StateRow \cup {None}, SilentRow(row)
    PROVE  row # None /\ row.status = "OFFLINE" => row.last_seen < now' - OfflineThreshold
<1>1. row # None => row.last_seen \in Int
  BY DEF StateRow
<1> QED BY <1>1, IngestionAssumption DEF SilentRow, TypeOK, IngestionAssumption

\* After a step too, every row that says OFFLINE, committed or not, is old.
THEOREM SilentStep == TypeOK /\ LocalsOK /\ SilentInv /\ [Next]_vars => SilentInv'
<1> SUFFICES ASSUME TypeOK, LocalsOK, SilentInv, [Next]_vars PROVE SilentInv'
  OBVIOUS
<1> USE DEF tables, pending, locals
<1>1. ASSUME UNCHANGED <<current, now>>,
             \A q \in Requests : newCurrent'[q] = newCurrent[q] \/ newCurrent'[q] = NoStates
      PROVE  SilentInv'
  BY <1>1 DEF SilentInv, SilentRow, NoStates
<1>2. CASE UNCHANGED vars
  BY <1>1, <1>2 DEF vars
<1>3. ASSUME NEW p \in Requests,
             \/ Arrive(p) \/ Validate(p) \/ InsertTelemetry(p) \/ EvaluateRules(p)
             \/ RulesEvaluated(p) \/ Fail(p)
      PROVE  SilentInv'
  <2>1. \A q \in Requests : newCurrent'[q] = newCurrent[q] \/ newCurrent'[q] = NoStates
    BY <1>3 DEF Arrive, Validate, InsertTelemetry, EvaluateRules, RulesEvaluated, Fail, TypeOK
  <2> QED BY <1>1, <1>3, <2>1 DEF Arrive, Validate, InsertTelemetry, EvaluateRules,
         RulesEvaluated, Fail
<1>4. ASSUME NEW p \in Requests, UpsertCurrentState(p) PROVE SilentInv'
  <2>1. UNCHANGED <<current, now>> /\ \A q \in Requests : q # p => newCurrent'[q] = newCurrent[q]
    BY <1>4 DEF UpsertCurrentState, TypeOK
  <2>2. ASSUME NEW b \in Batteries
        PROVE  newCurrent'[p][b] = None \/ \E r \in Readings : newCurrent'[p][b] = Upserted(current[b], r)
    <3>1. PICK best \in [Touched(p) -> DOMAIN Events(p)] :
            newCurrent' = [newCurrent EXCEPT ![p] =
              [c \in Batteries |-> IF c \in Touched(p)
                                   THEN Upserted(current[c], Events(p)[best[c]])
                                   ELSE None]]
      BY <1>4 DEF UpsertCurrentState
    <3>2. newCurrent'[p][b] = IF b \in Touched(p) THEN Upserted(current[b], Events(p)[best[b]])
                              ELSE None
      BY <3>1 DEF TypeOK
    <3>3. b \in Touched(p) => Events(p)[best[b]] \in Readings
      BY <3>1, ReadingFacts
    <3> QED BY <3>2, <3>3
  <2>3. \A b \in Batteries : SilentRow(newCurrent'[p][b])
    BY <2>2, SilentUpsert DEF SilentInv, SilentRow
  <2> QED BY <2>1, <2>3 DEF SilentInv, SilentRow
<1>5. ASSUME NEW p \in Requests, CommitData(p) \/ Commit(p) PROVE SilentInv'
  <2>1. /\ UNCHANGED now
        /\ \A b \in Batteries : current'[b] = newCurrent[p][b] \/ current'[b] = current[b]
        /\ \A q \in Requests : newCurrent'[q] = newCurrent[q] \/ newCurrent'[q] = NoStates
    BY <1>5 DEF CommitData, Commit, CommitTransaction, TypeOK
  <2> QED BY <2>1 DEF SilentInv, SilentRow, NoStates
<1>6. CASE MarkStaleBatteriesOffline
  <2>1. UNCHANGED <<newCurrent, now>>
    BY <1>6 DEF MarkStaleBatteriesOffline
  <2>2. ASSUME NEW b \in Batteries PROVE SilentRow(current'[b])
    <3>1. CASE b \in StaleBatteries
      <4>1. current[b] \in StateRow /\ current[b].last_seen < now - OfflineThreshold
        BY <3>1 DEF StaleBatteries, IsStale, TypeOK
      <4>2. current'[b] = MarkedOffline(current[b])
        BY <1>6, <3>1 DEF MarkStaleBatteriesOffline
      <4> QED BY <4>1, <4>2, MarkedRow DEF SilentRow
    <3>2. CASE b \notin StaleBatteries
      <4>1. current'[b] = current[b]
        BY <1>6, <3>2 DEF MarkStaleBatteriesOffline
      <4> QED BY <4>1 DEF SilentInv
    <3> QED BY <3>1, <3>2
  <2> QED BY <2>1, <2>2 DEF SilentInv, SilentRow
<1>7. CASE ReadClock \/ RaiseOffline \/ CommitOffline \/ DetectorFail \/ ReadAlert \/ ResolveAlert
  BY <1>1, <1>7 DEF ReadClock, RaiseOffline, CommitOffline, DetectorFail, ReadAlert, ResolveAlert
<1>8. CASE Crash
  BY <1>1, <1>8 DEF Crash
<1>9. CASE Tick
  <2>1. UNCHANGED <<current, newCurrent>> /\ now' \in Int /\ now <= now'
    BY <1>9 DEF Tick, TypeOK
  <2>2. \A b \in Batteries : current[b] \in StateRow \cup {None}
    BY DEF TypeOK
  <2>3. \A q \in Requests, b \in Batteries : newCurrent[q][b] \in StateRow \cup {None}
    BY DEF TypeOK
  <2> QED BY <2>1, <2>2, <2>3, SilentLater DEF SilentInv, SilentRow
<1> QED BY <1>2, <1>3, <1>4, <1>5, <1>6, <1>7, <1>8, <1>9 DEF Next, Ingest, Detect

LEMMA InitSilent == Init => SilentInv
BY DEF Init, SilentInv, SilentRow, NoStates

\* No battery heard of within the threshold is shown as OFFLINE, however marking
\* and ingestion interleave.
THEOREM OfflineMeansSilentHolds == Spec => []OfflineMeansSilent
<1>1. Spec => [](TypeOK /\ LocalsOK /\ SilentInv)
  BY InitType, InitSilent, TypeStep, SilentStep, PTL DEF Spec
<1>2. SilentInv => OfflineMeansSilent
  BY DEF SilentInv, SilentRow, OfflineMeansSilent
<1> QED BY <1>1, <1>2, PTL
=============================================================================
