----------------------------- MODULE Prediction -----------------------------
(***************************************************************************)
(* The life of a depletion model, from stored telemetry to an answer:      *)
(* persist_model.py trains on what is stored and writes the artifact, the  *)
(* backend loads it when it starts, and the prediction endpoint answers    *)
(* with it or with the physics baseline, while telemetry goes on arriving. *)
(*                                                                         *)
(* current_state is the newest stored reading (CurrentIsNewest of          *)
(* Ingestion), or that reading with the status OFFLINE.                    *)
(***************************************************************************)
EXTENDS Features

CONSTANTS Batteries,     \* battery ids, 1..n: the order the dataset has them in
          Reports,       \* Reports[b]: the readings that battery b may report
          Asked,         \* the batteries somebody asks a prediction for
          MaxReadings,
          Candidates,    \* the names the results are compared under, "baseline" first
          Scores,        \* <<mae, rmse>>
          Torn,          \* a file that joblib.load cannot read
          MaxRuns, MaxRestarts

ASSUME PredictionAssumption ==
    /\ \A b \in Batteries : Reports[b] \subseteq Reading
    /\ Asked \subseteq Batteries
    /\ IsFiniteSet(Batteries) /\ Batteries = 1..Cardinality(Batteries)
    /\ Candidates \in Seq(STRING)
    /\ Candidates[1] = "baseline" /\ Len(Candidates) >= 2
    /\ Scores \subseteq Int \X Int /\ None \notin Scores
    /\ MaxReadings \in Nat /\ MaxRuns \in Nat /\ MaxRestarts \in Nat

VARIABLES telemetry,    \* telemetry[b]: the stored readings of battery b
          runs,         \* how often persist_model.py has been run
          writing,      \* the model that joblib.dump is writing, or None
          artifact,     \* depletion_model_v1.joblib: None, Torn, or a model
          loaded,       \* model_registry._loaded_model
          restarts,
          request       \* GET /batteries/{id}/prediction being answered

vars == <<telemetry, runs, writing, artifact, loaded, restarts, request>>

\* What joblib.dump writes: {"pipeline": ..., "metadata": ...}, and, to state
\* properties, the results the selection saw.
Model == [run : 1..MaxRuns, algorithm : ToSet(Candidates) \ {"baseline"},
          results : [ToSet(Candidates) -> Scores \cup {None}]]

Idle == [phase |-> "idle"]

Init ==
    /\ telemetry = [b \in Batteries |-> {}]
    /\ runs = 0 /\ writing = None /\ artifact = None
    /\ loaded = None /\ restarts = 0
    /\ request = Idle

-----------------------------------------------------------------------------
\* A reading of battery b is committed, perhaps a late one.
Ingest(b) ==
    /\ MapThenSumSet(LAMBDA o : Cardinality(telemetry[o]), Batteries) < MaxReadings
    /\ \E r \in Reports[b] :
        /\ \A q \in telemetry[b] : q.timestamp # r.timestamp
        /\ telemetry' = [telemetry EXCEPT ![b] = @ \cup {r}]
    /\ UNCHANGED <<runs, writing, artifact, loaded, restarts, request>>

-----------------------------------------------------------------------------
(***************************************************************************)
(* build_dataset.py and persist_model.py, run by hand one after the other. *)
(***************************************************************************)

\* The order min() compares in: the MAE, then the RMSE, and a NaN below
\* nothing.
Less(s, o) ==
    /\ s # None /\ o # None
    /\ s[1] < o[1] \/ (s[1] = o[1] /\ s[2] < o[2])

\* Mutant: a trained model always wins.
SelectBestTrained(results) ==
    LET Beats(i, j) == Less(results[Candidates[i]], results[Candidates[j]])
    IN  Candidates[CHOOSE i \in 2..Len(Candidates) :
            \A j \in 2..Len(Candidates) : ~Beats(j, i) /\ (j < i => Beats(i, j))]

\* select_best_model: the first of the smallest.
SelectBest(results) ==
    LET best[i \in DOMAIN Candidates] ==
            IF i = 1 THEN Candidates[1]
            ELSE IF Less(results[Candidates[i]], results[best[i - 1]])
                 THEN Candidates[i] ELSE best[i - 1]
    IN  best[Len(Candidates)]

\* evaluate_models: a trained model scores every test row, the baseline those
\* it can answer; without any its errors are NaN.
Results(test) ==
    LET scorable == \E i \in DOMAIN test :
            EvaluationMinutes(test[i].features.state_of_charge, test[i].features.power_kw) # None
    IN  {r \in [ToSet(Candidates) -> Scores \cup {None}] :
            \A c \in DOMAIN r : r[c] = None <=> c = "baseline" /\ ~scorable}

\* persist_selected_model, the baseline having won: nothing is written.
BaselineWins(results) ==
    /\ SelectBest(results) = "baseline"
    /\ UNCHANGED <<writing, artifact>>

\* persist_selected_model, a trained model having won: joblib.dump opens the
\* file of that name and begins to write.
ModelWins(results) ==
    /\ SelectBest(results) # "baseline"
    /\ writing' = [run |-> runs + 1, algorithm |-> SelectBest(results), results |-> results]
    /\ artifact' = Torn

\* fit_candidate_models and evaluate_models, which raise on no rows at all, and
\* what is made of the results.
PersistModel ==
    /\ runs < MaxRuns /\ writing = None
    /\ runs' = runs + 1
    /\ LET split == ChronologicalSplit(BuildDataset(telemetry))
       IN  /\ split.train # <<>> /\ split.test # <<>>
           /\ \E results \in Results(split.test) : BaselineWins(results) \/ ModelWins(results)
    /\ UNCHANGED <<telemetry, loaded, restarts, request>>

DumpFinished ==
    /\ writing # None
    /\ artifact' = writing /\ writing' = None
    /\ UNCHANGED <<telemetry, runs, loaded, restarts, request>>

DumpCrashed ==
    /\ writing # None
    /\ writing' = None
    /\ UNCHANGED <<telemetry, runs, artifact, loaded, restarts, request>>

-----------------------------------------------------------------------------
(***************************************************************************)
(* The backend.                                                            *)
(***************************************************************************)

\* Mutant: a file that cannot be read is taken for a model.
LoadTorn == artifact

\* load_model_artifact: None for a file that is missing or cannot be read.
LoadModelArtifact == IF artifact = Torn THEN None ELSE artifact

\* The process ends, by a crash or a deployment, and lifespan loads the artifact
\* before the first request.
Restart ==
    /\ restarts < MaxRestarts
    /\ restarts' = restarts + 1
    /\ loaded' = LoadModelArtifact
    /\ request' = Idle
    /\ UNCHANGED <<telemetry, runs, writing, artifact>>

\* The state row, unless the battery never reported, as ingestion or the
\* offline detector left it.
CurrentStates(b) ==
    IF telemetry[b] = {} THEN {None}
    ELSE UNION {{q, [q EXCEPT !.status = "OFFLINE"]} :
                q \in {n \in telemetry[b] : \A o \in telemetry[b] : o.timestamp <= n.timestamp}}

\* get_battery_detail
ReadCurrentState(b) ==
    /\ request.phase # "read"
    /\ \E current \in CurrentStates(b) :
        request' = [phase |-> "read", battery |-> b, current |-> current]
    /\ UNCHANGED <<telemetry, runs, writing, artifact, loaded, restarts>>

\* Mutant: the artifact is read for every request.
AnswerReloading(fails) ==
    /\ request.phase = "read"
    /\ LET b == request.battery
           current == request.current
           history == IF current = None THEN {}
                      ELSE TelemetryHistory(telemetry[b], current.timestamp)
           prior == IF current = None THEN {} ELSE Before(history, current.timestamp)
       IN  request' = [phase |-> "answered", battery |-> b, current |-> current,
                       answer |-> Prediction(LoadModelArtifact, current, prior, fails)]
    /\ UNCHANGED <<telemetry, runs, writing, artifact, loaded, restarts>>

\* The rest of get_battery_prediction_endpoint: the history up to the reading
\* that was the newest when the state was read, and the answer.
Answer(fails) ==
    /\ request.phase = "read"
    /\ LET b == request.battery
           current == request.current
           history == IF current = None THEN {}
                      ELSE TelemetryHistory(telemetry[b], current.timestamp)
           prior == IF current = None THEN {} ELSE Before(history, current.timestamp)
       IN  request' = [phase |-> "answered", battery |-> b, current |-> current,
                       answer |-> Prediction(loaded, current, prior, fails)]
    /\ UNCHANGED <<telemetry, runs, writing, artifact, loaded, restarts>>

Next ==
    \/ \E b \in Batteries : Ingest(b)
    \/ \E b \in Asked : ReadCurrentState(b)
    \/ PersistModel \/ DumpFinished \/ DumpCrashed
    \/ Restart
    \/ \E fails \in BOOLEAN : Answer(fails)

Spec == Init /\ [][Next]_vars

-----------------------------------------------------------------------------
TypeOK ==
    /\ \A b \in Batteries : IsFiniteSet(telemetry[b]) /\ telemetry[b] \subseteq Reading
    /\ runs \in 0..MaxRuns /\ restarts \in 0..MaxRestarts
    /\ writing \in Model \cup {None} /\ loaded \in Model \cup {None}
    /\ artifact \in Model \cup {None, Torn}
    /\ writing # None => artifact = Torn
    /\ request.phase \in {"idle", "read", "answered"}

\* A model is served only if it is whole and beat the baseline, and by more
\* than a tie, on test rows that the baseline can answer (train_models.py:
\* "nothing here favors a trained model over it").
ServedModelWon ==
    loaded # None => /\ loaded \in Model
                     /\ Less(loaded.results[loaded.algorithm], loaded.results["baseline"])

\* Whatever is written to the artifact meanwhile, a process answers with the
\* model it loaded when it started (model_registry.py).
OneModelPerProcess ==
    request.phase = "answered" /\ request.answer.method = "ml" => request.answer.model = loaded

\* The target of a training row is the time to the battery's first critical
\* reading after it: a positive time, and none is critical in between.
LabelsAreTrue ==
    \A b \in Batteries : \A row \in ToSet(RowsForBattery(b, telemetry[b])) :
        LET critical == {q \in telemetry[b] : q.timestamp > row.timestamp /\ IsCritical(q)}
        IN  /\ \E q \in critical : q.timestamp - row.timestamp = row.minutes_to_critical
            /\ \A q \in critical : q.timestamp - row.timestamp >= row.minutes_to_critical

\* No model is scored on a moment before one it was fitted on, of whichever
\* battery, and every row is on one side (evaluate_baseline.py).
TestIsLater ==
    LET dataset == BuildDataset(telemetry)
        split == ChronologicalSplit(dataset)
    IN  /\ \A i \in DOMAIN split.train, j \in DOMAIN split.test :
               split.train[i].timestamp <= split.test[j].timestamp
        /\ ToSet(split.train) \cup ToSet(split.test) = ToSet(dataset)
        /\ ToSet(split.train) \cap ToSet(split.test) = {}

\* The baseline the models were measured against is the baseline they fall back
\* to: an answer about a discharging battery that is no model's is the number,
\* or the refusal, that evaluation/baseline.py computes.
FallbackIsTheScoredBaseline ==
    request.phase = "answered" /\ MLCouldApply(request.current) /\ request.answer.method # "ml" =>
        request.answer.minutes = EvaluationMinutes(request.current.soc, request.current.power)

\* No skew: of every reading that training would accept as a row, whatever
\* arrived between the endpoint's two reads, the model is asked what it would
\* have been taught.
ServedAsTrained ==
    [][request.phase = "read" /\ request'.phase = "answered" /\ request'.answer.method = "ml" =>
          LET history == telemetry[request.battery]
          IN  Trainable(history, request.current) =>
                  request'.answer.features = FeaturesForPoint(history, request.current)]_vars

\* After a run that the baseline won the artifact "does not exist, and the
\* backend will correctly fall back to the baseline" (persist_model.py prints).
NoArtifactAfterBaseline ==
    [][runs' # runs /\ writing' = None => artifact' = None]_vars
=============================================================================
