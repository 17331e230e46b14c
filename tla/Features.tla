------------------------------ MODULE Features ------------------------------
(***************************************************************************)
(* What the depletion model is trained on and what it is asked, computed   *)
(* by two programs that share no code: build_dataset.py with ml/features.py,*)
(* and the prediction endpoint with live_features.py.  Both duplicate the  *)
(* physics baseline, too.                                                  *)
(*                                                                         *)
(* A history is the set of the telemetry rows of one battery; no two of    *)
(* them have one timestamp (a simulated battery reports once a tick, and a *)
(* time unit is a tick).  The mean of a power is represented by the bag of *)
(* the readings it is the mean of.  The features that both programs only   *)
(* copy (temperature, health, capacity, profile) are left out.             *)
(***************************************************************************)
EXTENDS Integers, FiniteSets, Sequences, SequencesExt

CONSTANTS Critical,      \* CRITICAL_SOC_PERCENT
          MinDischarge,  \* MIN_DISCHARGE_POWER_KW
          Capacity,      \* capacity_kwh
          Short, Long,   \* ROLLING_WINDOW_5M_MINUTES, _15M_ and MAX_HISTORY_WINDOW_MINUTES
          Lookback,      \* _PREDICTION_HISTORY_LOOKBACK_MINUTES
          RowLimit,      \* _PREDICTION_HISTORY_ROW_LIMIT
          None           \* None, NaN

ASSUME FeaturesAssumption ==
    /\ Critical \in Int /\ Capacity \in Int
    /\ MinDischarge \in Nat \ {0}
    /\ Short \in Nat \ {0} /\ Long \in Nat /\ Lookback \in Nat
    /\ Short <= Long /\ Long <= Lookback
    /\ RowLimit \in Nat /\ RowLimit > Long
    /\ None \notin Int /\ None \notin {"baseline", "ml"}

Reading == [timestamp : Int, soc : Int, power : Int, status : STRING]

Before(history, time) == {q \in history : q.timestamp < time}
Newest(history) == CHOOSE q \in history : \A o \in history : o.timestamp <= q.timestamp
Abs(x) == IF x >= 0 THEN x ELSE -x

-----------------------------------------------------------------------------
(***************************************************************************)
(* Training.                                                               *)
(***************************************************************************)

\* One battery's rows, ORDER BY timestamp.
Sorted(history) ==
    [k \in 1..Cardinality(history) |->
        CHOOSE q \in history :
            Cardinality({o \in history : o.timestamp <= q.timestamp}) = k]

IsCritical(q) == q.soc <= Critical

\* Mutant: the pass keeps the first critical position it met.
NextCriticalIndexLast(df) ==
    LET next[i \in 1..Len(df)] ==
            IF i = Len(df) THEN 0
            ELSE IF next[i + 1] # 0 THEN next[i + 1]
            ELSE IF IsCritical(df[i + 1]) THEN i + 1 ELSE 0
    IN  next

\* The backward pass of _next_critical_index; 0 for -1.
NextCriticalIndex(df) ==
    LET next[i \in 1..Len(df)] ==
            IF i = Len(df) THEN 0
            ELSE IF IsCritical(df[i + 1]) THEN i + 1 ELSE next[i + 1]
    IN  next

\* df.iloc[window_start : i + 1] for the reading r.
Window(history, r) ==
    {q \in history : r.timestamp - Long <= q.timestamp /\ q.timestamp <= r.timestamp}

RollingPowerMean(window, as_of, minutes) ==
    SetToBag({q \in window : as_of - minutes < q.timestamp /\ q.timestamp <= as_of})

SocChange(window, as_of, current_soc) ==
    LET prior == {q \in window : q.timestamp <= as_of - Short}
    IN  IF prior = {} THEN None ELSE current_soc - Newest(prior).soc

\* compute_features_for_point
FeaturesForPoint(history, r) ==
    LET window == Window(history, r)
    IN  [state_of_charge   |-> r.soc,
         power_kw          |-> r.power,
         rolling_power_5m  |-> RollingPowerMean(window, r.timestamp, Short),
         rolling_power_15m |-> RollingPowerMean(window, r.timestamp, Long),
         soc_change_5m     |-> SocChange(window, r.timestamp, r.soc)]

\* Checks 1, 2, 3 and 3b: all but a critical reading to come.
Trainable(history, r) ==
    /\ ~IsCritical(r)
    /\ r.status = "DISCHARGING"
    /\ \E q \in history : r.timestamp - q.timestamp >= Long
    /\ FeaturesForPoint(history, r).soc_change_5m # None

\* _build_rows_for_battery
RowsForBattery(b, history) ==
    LET df == Sorted(history)
        next == NextCriticalIndex(df)
        Row(i) == [battery_id |-> b, timestamp |-> df[i].timestamp,
                   features |-> FeaturesForPoint(history, df[i]),
                   minutes_to_critical |-> df[next[i]].timestamp - df[i].timestamp]
        eligible == {i \in DOMAIN df : Trainable(history, df[i]) /\ next[i] # 0}
    IN  [k \in 1..Cardinality(eligible) |->
            Row(CHOOSE i \in eligible : Cardinality({j \in eligible : j <= i}) = k)]

\* build_dataset: battery by battery, as the rows are read and as the csv
\* holds them.
BuildDataset(telemetry) ==
    FlattenSeq([b \in DOMAIN telemetry |-> RowsForBattery(b, telemetry[b])])

\* Mutant: the file's own order, which is that of the batteries.
SortedByBattery(dataset) == dataset

\* A stable sort.
SortedByTimestamp(dataset) ==
    LET Rank(i) == Cardinality({j \in DOMAIN dataset :
                       \/ dataset[j].timestamp < dataset[i].timestamp
                       \/ dataset[j].timestamp = dataset[i].timestamp /\ j <= i})
    IN  [k \in DOMAIN dataset |-> dataset[CHOOSE i \in DOMAIN dataset : Rank(i) = k]]

\* chronological_split, at TRAIN_FRACTION
ChronologicalSplit(dataset) ==
    LET rows == SortedByTimestamp(dataset)
        split_index == (Len(rows) * 8) \div 10
    IN  [train |-> SubSeq(rows, 1, split_index),
         test  |-> SubSeq(rows, split_index + 1, Len(rows))]

\* Mutant: a rate of exactly the floor is not scored.
EvaluationMinutesAbove(soc, power) ==
    IF Abs(power) <= MinDischarge THEN None
    ELSE (Capacity * (soc - Critical) * 60) \div (100 * Abs(power))

\* predict_minutes_to_critical of ml/evaluation/baseline.py, for one row.
EvaluationMinutes(soc, power) ==
    IF Abs(power) < MinDischarge THEN None
    ELSE (Capacity * (soc - Critical) * 60) \div (100 * Abs(power))

-----------------------------------------------------------------------------
(***************************************************************************)
(* Serving.                                                                *)
(***************************************************************************)

\* get_battery_telemetry_history as the endpoint calls it: both bounds
\* included, newest first, at most RowLimit rows.
TelemetryHistory(history, as_of) ==
    LET within == {q \in history : as_of - Lookback <= q.timestamp /\ q.timestamp <= as_of}
    IN  {q \in within : Cardinality({o \in within : o.timestamp > q.timestamp}) < RowLimit}

\* Mutant: the reading at the cutoff is averaged, too.
LiveRollingPowerMeanWide(prior, as_of, current, minutes) ==
    SetToBag({q \in prior : as_of - minutes <= q.timestamp /\ q.timestamp < as_of})
        (+) SetToBag({current})

LiveRollingPowerMean(prior, as_of, current, minutes) ==
    SetToBag({q \in prior : as_of - minutes < q.timestamp /\ q.timestamp < as_of})
        (+) SetToBag({current})

LiveSocChange(prior, as_of, current_soc) ==
    LET candidates == {q \in prior : q.timestamp <= as_of - Short}
    IN  IF candidates = {} THEN None ELSE current_soc - Newest(candidates).soc

\* compute_live_features
LiveFeatures(prior, current) ==
    LET as_of == current.timestamp
        soc_change == LiveSocChange(prior, as_of, current.soc)
    IN  IF soc_change = None THEN None
        ELSE [state_of_charge   |-> current.soc,
              power_kw          |-> current.power,
              rolling_power_5m  |-> LiveRollingPowerMean(prior, as_of, current, Short),
              rolling_power_15m |-> LiveRollingPowerMean(prior, as_of, current, Long),
              soc_change_5m     |-> soc_change]

NoAnswer == [available |-> FALSE, method |-> None, minutes |-> None, model |-> None,
             features |-> None, reason |-> None]

Unavailable(reason) == [NoAnswer EXCEPT !.reason = reason]

\* compute_baseline_prediction; current = None is a battery without a state row.
BaselinePrediction(current) ==
    IF current = None THEN Unavailable("no_current_state")
    ELSE IF current.status # "DISCHARGING" THEN Unavailable("battery_not_discharging")
    ELSE IF current.soc <= Critical THEN Unavailable("already_at_or_below_critical_soc")
    ELSE IF Abs(current.power) < MinDischarge THEN Unavailable("discharge_rate_too_low")
    ELSE [NoAnswer EXCEPT
             !.available = TRUE, !.method = "baseline",
             !.minutes = (Capacity * (current.soc - Critical) * 60)
                             \div (100 * Abs(current.power))]

\* _ml_prediction_could_apply
MLCouldApply(current) ==
    current # None /\ current.status = "DISCHARGING" /\ current.soc > Critical

\* compute_prediction, where "fails" says whether inference raises.
Prediction(loaded, current, prior, fails) ==
    LET features == LiveFeatures(prior, current)
    IN  IF loaded # None /\ MLCouldApply(current) /\ features # None /\ ~fails
        THEN [NoAnswer EXCEPT !.available = TRUE, !.method = "ml", !.model = loaded,
                              !.features = features]
        ELSE BaselinePrediction(current)
=============================================================================
