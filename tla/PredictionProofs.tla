------------------------- MODULE PredictionProofs --------------------------
(***************************************************************************)
(* What the prediction endpoint answers, for any windows, telemetry, order *)
(* of its arrival, and life of the artifact.                               *)
(***************************************************************************)
EXTENDS Prediction, FiniteSetTheorems, TLAPS

-----------------------------------------------------------------------------
(***************************************************************************)
(* Training and serving compute the same features of one history.          *)
(***************************************************************************)

OncePerTime(history) ==
    \A x, y \in history : x.timestamp = y.timestamp => x = y

\* A set of naturals has a least member.
LEMMA LeastOf ==
    ASSUME NEW T \in SUBSET Nat, T # {}
    PROVE  \E x \in T : \A y \in T : x <= y
<1> DEFINE R == {ss \in Nat \X Nat : ss[1] < ss[2]}
<1>1. IsWellFoundedOn(R, Nat)
    BY NatLessThanWellFounded, Zenon DEF OpToRel
<1>2. \A x, y \in Nat : <<y, x>> \in R <=> y < x
    OBVIOUS
<1> HIDE DEF R
<1>3. PICK x \in T : \A y \in T : ~(<<y, x>> \in R)
    BY <1>1, WFMin
<1>4. \A y \in T : x \in Nat /\ y \in Nat /\ ~(y < x)
    BY <1>2, <1>3
<1>5. \A y \in T : x <= y
    BY <1>4
<1> QED
    BY <1>3, <1>5

\* Induction up to n, over the members of a set.
LEMMA UpTo ==
    ASSUME NEW n \in Nat, NEW T, 1 \in T, \A i \in 1..n : i \in T /\ i + 1 <= n => i + 1 \in T
    PROVE  1..n \subseteq T
<1> DEFINE Missing == (1..n) \ T
<1> SUFFICES ASSUME Missing # {} PROVE FALSE
    OBVIOUS
<1>1. Missing \in SUBSET Nat
    OBVIOUS
<1>2. PICK x \in Missing : \A y \in Missing : x <= y
  <2> HIDE DEF Missing
  <2> QED
    BY <1>1, LeastOf
<1>3. x \in 1..n /\ x # 1 /\ x - 1 \in 1..n
    BY <1>2
<1>4. x - 1 \in T
    BY <1>2, <1>3
<1> QED
    BY <1>2, <1>3, <1>4

\* Readings that are not later than some time have a newest among them.
LEMMA NewestExists ==
    ASSUME NEW S \in SUBSET Reading, S # {}, NEW time \in Int,
           \A x \in S : x.timestamp <= time
    PROVE  \E x \in S : \A y \in S : y.timestamp <= x.timestamp
<1> DEFINE Ages == {time - x.timestamp : x \in S}
<1>1. \A x \in S : x.timestamp \in Int
    BY DEF Reading
<1>2. Ages \in SUBSET Nat /\ Ages # {}
    BY <1>1
<1>3. PICK age \in Ages : \A a \in Ages : age <= a
  <2> HIDE DEF Ages
  <2> QED
    BY <1>2, LeastOf
<1>4. PICK x \in S : age = time - x.timestamp
    BY <1>3
<1>5. \A y \in S : time - x.timestamp <= time - y.timestamp
    BY <1>3, <1>4
<1>6. \A y \in S : y.timestamp <= x.timestamp
    BY <1>1, <1>4, <1>5
<1> QED
    BY <1>4, <1>6

\* Between two times there are at most as many readings as time units.
LEMMA FewBetween ==
    ASSUME NEW S \in SUBSET Reading, OncePerTime(S), NEW from \in Int, NEW to \in Int,
           from <= to, \A x \in S : from < x.timestamp /\ x.timestamp <= to
    PROVE  Cardinality(S) \in Nat /\ Cardinality(S) <= to - from
<1> DEFINE interval == (from + 1)..to
           f == [x \in S |-> x.timestamp]
<1>1. \A x \in S : x.timestamp \in Int
    BY DEF Reading
<1>2. f \in Injection(S, interval)
  <2>1. f \in [S -> interval]
    BY <1>1
  <2>2. IsInjective(f)
    BY DEF IsInjective, OncePerTime
  <2> QED
    BY <2>1, <2>2 DEF Injection
<1>3. /\ IsFiniteSet(interval)
      /\ Cardinality(interval) = IF from + 1 > to THEN 0 ELSE to - (from + 1) + 1
  <2>1. from + 1 \in Int
    OBVIOUS
  <2> QED
    BY <2>1, FS_Interval
<1>4. Cardinality(interval) = to - from
    BY <1>3
<1> HIDE DEF f, interval
<1>5. IsFiniteSet(S) /\ Cardinality(S) <= Cardinality(interval)
    BY <1>2, <1>3, FS_Injection
<1> QED
    BY <1>4, <1>5, FS_CardinalityType

\* The endpoint's query returns all that training looks at.
LEMMA WindowServed ==
    ASSUME NEW H \in SUBSET Reading, OncePerTime(H), NEW q \in H
    PROVE  Window(H, q) \subseteq TelemetryHistory(H, q.timestamp)
<1> SUFFICES ASSUME NEW r \in Window(H, q)
             PROVE  r \in TelemetryHistory(H, q.timestamp)
    OBVIOUS
<1> DEFINE within == {o \in H : q.timestamp - Lookback <= o.timestamp /\ o.timestamp <= q.timestamp}
           later == {o \in within : o.timestamp > r.timestamp}
<1>1. \A o \in H : o.timestamp \in Int
    BY DEF Reading
<1>2. r \in H /\ q.timestamp - Long <= r.timestamp /\ r.timestamp <= q.timestamp
    BY DEF Window
<1>3. r \in within
    BY <1>1, <1>2, FeaturesAssumption
<1>4. Cardinality(later) \in Nat /\ Cardinality(later) <= q.timestamp - r.timestamp
  <2>1. later \in SUBSET Reading /\ OncePerTime(later)
    BY DEF OncePerTime
  <2>2. \A o \in later : r.timestamp < o.timestamp /\ o.timestamp <= q.timestamp
    BY <1>1, <1>2
  <2>3. r.timestamp \in Int /\ q.timestamp \in Int /\ r.timestamp <= q.timestamp
    BY <1>1, <1>2
  <2> HIDE DEF later
  <2> QED
    BY <2>1, <2>2, <2>3, FewBetween
<1>5. Cardinality(later) < RowLimit
  <2> HIDE DEF later
  <2> QED
    BY <1>1, <1>2, <1>4, FeaturesAssumption
<1> QED
    BY <1>3, <1>5 DEF TelemetryHistory

\* Appending a reading to a window that lacks it.
LEMMA BagWith ==
    ASSUME NEW S, NEW x, x \notin S
    PROVE  SetToBag(S \cup {x}) = SetToBag(S) (+) SetToBag({x})
BY DEF SetToBag, (+)

\* Both sides average the power of the same readings.
LEMMA SamePower ==
    ASSUME NEW H \in SUBSET Reading, OncePerTime(H), NEW q \in H,
           NEW minutes \in Nat \ {0}, minutes <= Long
    PROVE  RollingPowerMean(Window(H, q), q.timestamp, minutes) =
           LiveRollingPowerMean(Before(TelemetryHistory(H, q.timestamp), q.timestamp),
                                q.timestamp, q, minutes)
<1> DEFINE as_of == q.timestamp
           trained == {x \in Window(H, q) : as_of - minutes < x.timestamp /\ x.timestamp <= as_of}
           served == {x \in Before(TelemetryHistory(H, as_of), as_of) :
                          as_of - minutes < x.timestamp /\ x.timestamp < as_of}
<1>1. \A o \in H : o.timestamp \in Int
    BY DEF Reading
<1>2. TelemetryHistory(H, as_of) \subseteq H
    BY DEF TelemetryHistory
<1>3. q \in trained /\ q \notin served
    BY <1>1, FeaturesAssumption DEF Window
<1>4. served \subseteq trained
    BY <1>1, <1>2, FeaturesAssumption DEF Before, Window
<1>5. ASSUME NEW x \in trained, x # q PROVE x \in served
  <2>1. x \in H /\ x \in Window(H, q)
    BY DEF Window
  <2>2. x.timestamp < as_of
    BY <1>1, <1>5, <2>1 DEF OncePerTime
  <2>3. x \in TelemetryHistory(H, as_of)
    BY <2>1, WindowServed
  <2> QED
    BY <2>2, <2>3 DEF Before
<1>6. trained = served \cup {q}
    BY <1>3, <1>4, <1>5
<1>7. SetToBag(trained) = SetToBag(served) (+) SetToBag({q})
  <2> HIDE DEF trained, served
  <2> QED
    BY <1>3, <1>6, BagWith
<1> QED
    BY <1>7 DEF RollingPowerMean, LiveRollingPowerMean

\* The older readings the endpoint may see besides do not matter.
LEMMA SameSocChange ==
    ASSUME NEW H \in SUBSET Reading, OncePerTime(H), NEW q \in H,
           SocChange(Window(H, q), q.timestamp, q.soc) # None
    PROVE  LiveSocChange(Before(TelemetryHistory(H, q.timestamp), q.timestamp),
                         q.timestamp, q.soc) =
           SocChange(Window(H, q), q.timestamp, q.soc)
<1> DEFINE as_of == q.timestamp
           prior == {x \in Window(H, q) : x.timestamp <= as_of - Short}
           candidates == {x \in Before(TelemetryHistory(H, as_of), as_of) :
                              x.timestamp <= as_of - Short}
<1>1. \A o \in H : o.timestamp \in Int
    BY DEF Reading
<1>2. prior # {}
    BY DEF SocChange
<1>3. prior \subseteq candidates
  <2> SUFFICES ASSUME NEW x \in prior PROVE x \in candidates
    OBVIOUS
  <2>1. x \in H /\ x \in Window(H, q) /\ x.timestamp <= as_of - Short
    BY DEF Window
  <2>2. x.timestamp < as_of
    BY <1>1, <2>1, FeaturesAssumption
  <2>3. x \in TelemetryHistory(H, as_of)
    BY <2>1, WindowServed
  <2> QED
    BY <2>1, <2>2, <2>3 DEF Before
<1>4. candidates \subseteq H
    BY DEF Before, TelemetryHistory
<1>5. PICK n \in prior : \A o \in prior : o.timestamp <= n.timestamp
  <2>1. prior \in SUBSET Reading
    BY DEF Window
  <2>2. as_of - Short \in Int /\ \A x \in prior : x.timestamp <= as_of - Short
    BY <1>1, FeaturesAssumption
  <2> HIDE DEF prior
  <2> QED
    BY <1>2, <2>1, <2>2, NewestExists
<1>6. \A o \in candidates : o \notin prior => o.timestamp < n.timestamp
  <2> SUFFICES ASSUME NEW o \in candidates, o \notin prior PROVE o.timestamp < n.timestamp
    OBVIOUS
  <2>1. o \in H /\ n \in H /\ o.timestamp <= as_of - Short
    BY <1>3, <1>4
  <2>2. o.timestamp < as_of - Long
    BY <1>1, <2>1, FeaturesAssumption DEF Window
  <2>3. as_of - Long <= n.timestamp
    BY DEF Window
  <2> QED
    BY <1>1, <2>1, <2>2, <2>3, FeaturesAssumption
<1>7. \A o \in candidates : o.timestamp \in Int /\ o.timestamp <= n.timestamp
    BY <1>1, <1>3, <1>4, <1>5, <1>6
<1>8. n \in candidates /\ candidates # {}
    BY <1>3
<1>9. \A m \in candidates : (\A o \in candidates : o.timestamp <= m.timestamp) => m = n
    BY <1>1, <1>4, <1>7, <1>8 DEF OncePerTime
<1>10. \A m \in prior : (\A o \in prior : o.timestamp <= m.timestamp) => m = n
    BY <1>1, <1>3, <1>4, <1>5 DEF OncePerTime
<1>11. Newest(prior) = n /\ Newest(candidates) = n
  <2> HIDE DEF prior, candidates
  <2> QED
    BY <1>5, <1>7, <1>8, <1>9, <1>10 DEF Newest
<1> QED
    BY <1>2, <1>8, <1>11 DEF SocChange, LiveSocChange

\* The features, together.
LEMMA SameFeatures ==
    ASSUME NEW H \in SUBSET Reading, OncePerTime(H), NEW q \in H, Trainable(H, q)
    PROVE  LiveFeatures(Before(TelemetryHistory(H, q.timestamp), q.timestamp), q) =
           FeaturesForPoint(H, q)
<1>1. SocChange(Window(H, q), q.timestamp, q.soc) # None
    BY DEF Trainable, FeaturesForPoint
<1>2. LiveSocChange(Before(TelemetryHistory(H, q.timestamp), q.timestamp), q.timestamp, q.soc) =
      SocChange(Window(H, q), q.timestamp, q.soc)
    BY <1>1, SameSocChange
<1>3. ASSUME NEW minutes \in {Short, Long}
      PROVE  RollingPowerMean(Window(H, q), q.timestamp, minutes) =
             LiveRollingPowerMean(Before(TelemetryHistory(H, q.timestamp), q.timestamp),
                                  q.timestamp, q, minutes)
    BY SamePower, FeaturesAssumption
<1> QED
    BY <1>1, <1>2, <1>3 DEF LiveFeatures, FeaturesForPoint

-----------------------------------------------------------------------------
(***************************************************************************)
(* The endpoint.                                                           *)
(***************************************************************************)

TelemetryOK ==
    /\ telemetry \in [Batteries -> SUBSET Reading]
    /\ \A b \in Batteries : OncePerTime(telemetry[b])

\* The row that a request holds is a stored reading, but perhaps for its status.
HeldRowIsStored ==
    request.phase = "read" =>
        /\ request.battery \in Batteries
        /\ request.current # None =>
               \E q \in telemetry[request.battery] :
                   request.current \in {q, [q EXCEPT !.status = "OFFLINE"]}

IInv == TelemetryOK /\ HeldRowIsStored /\ OneModelPerProcess /\ FallbackIsTheScoredBaseline

\* What an answer says, whichever way it was found.
LEMMA PredictionSays ==
    ASSUME NEW model, NEW current, NEW prior, NEW fails, current # None => current.soc \in Int
    PROVE  LET answer == Prediction(model, current, prior, fails)
           IN  /\ answer.method = "ml" =>
                      /\ MLCouldApply(current)
                      /\ answer.model = model
                      /\ answer.features = LiveFeatures(prior, current)
               /\ MLCouldApply(current) /\ answer.method # "ml" =>
                      answer.minutes = EvaluationMinutes(current.soc, current.power)
<1> DEFINE answer == Prediction(model, current, prior, fails)
           baseline == BaselinePrediction(current)
<1>1. /\ baseline.method # "ml"
      /\ MLCouldApply(current) =>
             baseline.minutes = EvaluationMinutes(current.soc, current.power)
  <2>1. "baseline" # "ml"
    OBVIOUS
  <2>2. None # "ml"
    BY FeaturesAssumption
  <2>3. baseline.method \in {None, "baseline"}
    BY DEF BaselinePrediction, Unavailable, NoAnswer
  <2>4. MLCouldApply(current) =>
            baseline.minutes = EvaluationMinutes(current.soc, current.power)
    <3> SUFFICES ASSUME MLCouldApply(current)
                 PROVE  baseline.minutes = EvaluationMinutes(current.soc, current.power)
        OBVIOUS
    <3>1. current # None /\ ~(current.status # "DISCHARGING") /\ ~(current.soc <= Critical)
        BY FeaturesAssumption DEF MLCouldApply
    <3> QED
        BY <3>1 DEF BaselinePrediction, Unavailable, NoAnswer, EvaluationMinutes
  <2> QED
    BY <2>1, <2>2, <2>3, <2>4
<1>2. CASE answer = baseline
    BY <1>1, <1>2
<1>3. CASE answer # baseline
  <2>1. /\ MLCouldApply(current)
        /\ answer = [NoAnswer EXCEPT !.available = TRUE, !.method = "ml", !.model = model,
                                     !.features = LiveFeatures(prior, current)]
    BY <1>3 DEF Prediction
  <2>2. /\ answer.method = "ml" /\ answer.model = model
        /\ answer.features = LiveFeatures(prior, current)
    BY <2>1 DEF NoAnswer
  <2> QED
    BY <2>1, <2>2
<1> QED
    BY <1>2, <1>3

\* The row held between the two reads is a reading.
LEMMA HeldRowTyped ==
    ASSUME TelemetryOK, HeldRowIsStored, request.phase = "read", request.current # None
    PROVE  request.current.soc \in Int
<1>1. PICK q \in telemetry[request.battery] :
          request.current \in {q, [q EXCEPT !.status = "OFFLINE"]}
    BY DEF HeldRowIsStored
<1>2. q \in Reading
    BY <1>1 DEF TelemetryOK, HeldRowIsStored
<1> QED
    BY <1>1, <1>2 DEF Reading

LEMMA InitIInv == Init => IInv
BY DEF Init, IInv, TelemetryOK, OncePerTime, HeldRowIsStored, Idle, OneModelPerProcess,
       FallbackIsTheScoredBaseline

LEMMA IngestIInv ==
    ASSUME IInv, NEW b \in Batteries, Ingest(b)
    PROVE  IInv'
<1>1. PICK r \in Reports[b] :
          /\ \A q \in telemetry[b] : q.timestamp # r.timestamp
          /\ telemetry' = [telemetry EXCEPT ![b] = @ \cup {r}]
    BY DEF Ingest
<1>2. r \in Reading
    BY PredictionAssumption
<1>3. \A o \in Batteries : telemetry[o] \subseteq telemetry'[o]
    BY <1>1 DEF IInv, TelemetryOK
<1>4. TelemetryOK'
    BY <1>1, <1>2 DEF IInv, TelemetryOK, OncePerTime
<1>5. HeldRowIsStored'
    BY <1>3 DEF IInv, HeldRowIsStored, Ingest
<1> QED
    BY <1>4, <1>5 DEF Ingest, IInv, OneModelPerProcess, FallbackIsTheScoredBaseline

LEMMA ReadCurrentStateIInv ==
    ASSUME IInv, NEW b \in Asked, ReadCurrentState(b)
    PROVE  IInv'
<1>1. PICK current \in CurrentStates(b) :
          request' = [phase |-> "read", battery |-> b, current |-> current]
    BY DEF ReadCurrentState
<1>2. b \in Batteries
    BY PredictionAssumption
<1>3. current # None => \E q \in telemetry[b] : current \in {q, [q EXCEPT !.status = "OFFLINE"]}
    BY DEF CurrentStates
<1>4. telemetry' = telemetry
    BY DEF ReadCurrentState
<1>5. /\ request'.phase = "read" /\ request'.battery = b /\ request'.current = current
    BY <1>1
<1>6. HeldRowIsStored'
    BY <1>2, <1>3, <1>4, <1>5 DEF HeldRowIsStored
<1> QED
    BY <1>4, <1>5, <1>6 DEF IInv, TelemetryOK, OneModelPerProcess, FallbackIsTheScoredBaseline

\* What the endpoint's second half answers from.
LEMMA AnswerStep ==
    ASSUME NEW fails \in BOOLEAN, Answer(fails)
    PROVE  /\ request.phase = "read" /\ request'.phase = "answered"
           /\ request'.current = request.current
           /\ \E prior :
                 /\ request'.answer = Prediction(loaded, request.current, prior, fails)
                 /\ request.current # None =>
                        prior = Before(TelemetryHistory(telemetry[request.battery],
                                                        request.current.timestamp),
                                       request.current.timestamp)
           /\ UNCHANGED <<telemetry, loaded>>
BY DEF Answer

LEMMA AnswerIInv ==
    ASSUME IInv, NEW fails \in BOOLEAN, Answer(fails)
    PROVE  IInv'
<1>1. PICK prior : request'.answer = Prediction(loaded, request.current, prior, fails)
    BY AnswerStep
<1>2. /\ request'.phase = "answered" /\ request'.current = request.current
      /\ UNCHANGED <<telemetry, loaded>>
    BY AnswerStep
<1> request.current # None => request.current.soc \in Int
    BY AnswerStep, HeldRowTyped DEF IInv
<1>3. OneModelPerProcess'
    BY <1>1, <1>2, PredictionSays DEF OneModelPerProcess
<1>4. FallbackIsTheScoredBaseline'
    BY <1>1, <1>2, PredictionSays
       DEF FallbackIsTheScoredBaseline, MLCouldApply, EvaluationMinutes
<1> QED
    BY <1>2, <1>3, <1>4 DEF IInv, TelemetryOK, HeldRowIsStored

LEMMA NextIInv == IInv /\ [Next]_vars => IInv'
<1> SUFFICES ASSUME IInv, [Next]_vars PROVE IInv'
    OBVIOUS
<1>1. CASE \E b \in Batteries : Ingest(b)
    BY <1>1, IngestIInv
<1>2. CASE \E b \in Asked : ReadCurrentState(b)
    BY <1>2, ReadCurrentStateIInv
<1>3. CASE \E fails \in BOOLEAN : Answer(fails)
    BY <1>3, AnswerIInv
<1>4. CASE Restart
    BY <1>4 DEF Restart, Idle, IInv, TelemetryOK, HeldRowIsStored, OneModelPerProcess,
                FallbackIsTheScoredBaseline
<1>5. CASE PersistModel \/ DumpFinished \/ DumpCrashed \/ UNCHANGED vars
  <2>1. UNCHANGED <<telemetry, loaded, request>>
    BY <1>5 DEF PersistModel, DumpFinished, DumpCrashed, vars
  <2> QED
    BY <2>1 DEF IInv, TelemetryOK, HeldRowIsStored, OneModelPerProcess,
                FallbackIsTheScoredBaseline
<1> QED
    BY <1>1, <1>2, <1>3, <1>4, <1>5 DEF Next

LEMMA Invariance == Spec => []IInv
<1>1. Init => IInv
    BY InitIInv
<1>2. IInv /\ [Next]_vars => IInv'
    BY NextIInv
<1> QED
    BY <1>1, <1>2, PTL DEF Spec

\* A backend process answers with one model, whatever happens to the file.
THEOREM ServesOneModel == Spec => []OneModelPerProcess
<1>1. IInv => OneModelPerProcess
    BY DEF IInv
<1> QED
    BY <1>1, Invariance, PTL

\* What the endpoint falls back to is the baseline that the models were measured
\* against.
THEOREM FallsBackToScoredBaseline == Spec => []FallbackIsTheScoredBaseline
<1>1. IInv => FallbackIsTheScoredBaseline
    BY DEF IInv
<1> QED
    BY <1>1, Invariance, PTL

\* For every reading that training would accept, the endpoint computes the
\* features that training computes, although it looks further back, at no more
\* than RowLimit rows, and in two reads.
THEOREM NoSkew == Spec => ServedAsTrained
<1> DEFINE Same == request.phase = "read" /\ request'.phase = "answered"
                        /\ request'.answer.method = "ml" =>
                   LET history == telemetry[request.battery]
                   IN  Trainable(history, request.current) =>
                           request'.answer.features = FeaturesForPoint(history, request.current)
<1>1. IInv /\ [Next]_vars => [Same]_vars
  <2> SUFFICES ASSUME IInv, Next, request.phase = "read", request'.phase = "answered",
                      request'.answer.method = "ml",
                      Trainable(telemetry[request.battery], request.current)
               PROVE  request'.answer.features =
                          FeaturesForPoint(telemetry[request.battery], request.current)
    OBVIOUS
  <2>1. PICK fails \in BOOLEAN : Answer(fails)
    <3>1. CASE \E b \in Batteries : Ingest(b)
        BY <3>1 DEF Ingest
    <3>2. CASE \E b \in Asked : ReadCurrentState(b)
        BY <3>2 DEF ReadCurrentState
    <3>3. CASE PersistModel \/ DumpFinished \/ DumpCrashed
        BY <3>3 DEF PersistModel, DumpFinished, DumpCrashed
    <3>4. CASE Restart
        BY <3>4 DEF Restart, Idle
    <3> QED
        BY <3>1, <3>2, <3>3, <3>4 DEF Next
  <2> DEFINE history == telemetry[request.battery]
             current == request.current
  <2>2. PICK prior :
            /\ request'.answer = Prediction(loaded, current, prior, fails)
            /\ current # None =>
                  prior = Before(TelemetryHistory(history, current.timestamp), current.timestamp)
    BY <2>1, AnswerStep
  <2>3. MLCouldApply(current) /\ request'.answer.features = LiveFeatures(prior, current)
    <3>1. current # None => current.soc \in Int
        BY <2>1, AnswerStep, HeldRowTyped DEF IInv
    <3> QED
        BY <2>2, <3>1, PredictionSays
  <2>4. current # None /\ current.status = "DISCHARGING"
    BY <2>3 DEF MLCouldApply
  <2>5. PICK q \in history : current \in {q, [q EXCEPT !.status = "OFFLINE"]}
    BY <2>4 DEF IInv, HeldRowIsStored
  <2>6. history \in SUBSET Reading /\ OncePerTime(history)
    BY DEF IInv, TelemetryOK, HeldRowIsStored
  <2>7. current = q
    <3>1. q \in Reading
        BY <2>5, <2>6
    <3>2. [q EXCEPT !.status = "OFFLINE"].status = "OFFLINE"
        BY <3>1 DEF Reading
    <3> QED
        BY <2>4, <2>5, <3>2
  <2>8. LiveFeatures(prior, current) = FeaturesForPoint(history, current)
    <3> HIDE DEF history, current
    <3> QED
        BY <2>2, <2>4, <2>5, <2>6, <2>7, SameFeatures DEF history, current
  <2> QED
    BY <2>3, <2>8
<1> QED
    BY <1>1, Invariance, PTL DEF Spec, ServedAsTrained

-----------------------------------------------------------------------------
(***************************************************************************)
(* The model that is served.  SelectBest scans the candidates and keeps    *)
(* the first of the smallest; the scan begins with the baseline, so that   *)
(* what it keeps is the baseline or has beaten it.                         *)
(***************************************************************************)

Better(results, c, kept) == IF Less(results[c], results[kept]) THEN c ELSE kept

\* best is what the scan of the first n candidates keeps, at each of them.
Scan(results, n, best) ==
    \A i \in 1..n :
        best[i] = IF i = 1 THEN Candidates[1] ELSE Better(results, Candidates[i], best[i - 1])

LEMMA CandidateFacts ==
    /\ Len(Candidates) \in Nat \ {0, 1} /\ DOMAIN Candidates = 1..Len(Candidates)
    /\ \A i \in 1..Len(Candidates) : Candidates[i] \in ToSet(Candidates)
    /\ Candidates[1] = "baseline" /\ "baseline" \in ToSet(Candidates)
<1>1. /\ Candidates \in Seq(STRING) /\ Len(Candidates) >= 2
      /\ Candidates[1] = "baseline"
    BY PredictionAssumption
<1>2. Len(Candidates) \in Nat /\ DOMAIN Candidates = 1..Len(Candidates)
    BY <1>1
<1> QED
    BY <1>1, <1>2 DEF ToSet

\* There is such a scan (the recursive function of SelectBest is well defined).
LEMMA ScanExists ==
    ASSUME NEW results
    PROVE  \E best \in [1..Len(Candidates) -> ToSet(Candidates)] :
               Scan(results, Len(Candidates), best)
<1> DEFINE N == Len(Candidates)
           C == ToSet(Candidates)
           Scanned == {n \in 1..N : \E best \in [1..n -> C] : Scan(results, n, best)}
<1>1. N \in Nat /\ 1 \in 1..N
    BY CandidateFacts
<1>2. 1 \in Scanned
  <2> DEFINE best == [i \in 1..1 |-> Candidates[1]]
  <2>1. best \in [1..1 -> C] /\ Scan(results, 1, best)
    BY CandidateFacts DEF Scan
  <2> QED
    BY <1>1, <2>1
<1>3. ASSUME NEW n \in 1..N, n \in Scanned, n + 1 <= N PROVE n + 1 \in Scanned
  <2>1. PICK best \in [1..n -> C] : Scan(results, n, best)
    BY <1>3
  <2> DEFINE next == [i \in 1..(n + 1) |->
                         IF i = n + 1 THEN Better(results, Candidates[n + 1], best[n]) ELSE best[i]]
  <2>2. Candidates[n + 1] \in C /\ n + 1 \in 1..N
    BY <1>1, <1>3, CandidateFacts
  <2>3. next \in [1..(n + 1) -> C]
    BY <2>2 DEF Better
  <2>4. Scan(results, n + 1, next)
    BY <2>1 DEF Scan
  <2> QED
    BY <2>2, <2>3, <2>4
<1>4. 1..N \subseteq Scanned
  <2> HIDE DEF N, Scanned
  <2> QED
    BY <1>1, <1>2, <1>3, UpTo
<1>5. N \in Scanned
    BY <1>4, CandidateFacts
<1> QED
    BY <1>5

\* What is selected is what the scan holds at its end.
LEMMA SelectBestScans ==
    ASSUME NEW results
    PROVE  \E best : Scan(results, Len(Candidates), best)
                     /\ SelectBest(results) = best[Len(Candidates)]
<1> DEFINE Steps(best) ==
        best = [i \in DOMAIN Candidates |->
                   IF i = 1 THEN Candidates[1]
                   ELSE IF Less(results[Candidates[i]], results[best[i - 1]])
                        THEN Candidates[i] ELSE best[i - 1]]
<1>1. PICK f \in [1..Len(Candidates) -> ToSet(Candidates)] : Scan(results, Len(Candidates), f)
    BY ScanExists
<1>2. Steps(f)
    BY <1>1, CandidateFacts DEF Scan, Better
<1> DEFINE best == CHOOSE g : Steps(g)
<1>3. Steps(best)
    BY <1>2
<1>4. SelectBest(results) = best[Len(Candidates)]
    BY DEF SelectBest
<1>5. Scan(results, Len(Candidates), best)
    BY <1>3, CandidateFacts DEF Scan, Better
<1> QED
    BY <1>4, <1>5

\* Less is transitive on scores, NaN being below nothing.
LEMMA LessIsTransitive ==
    ASSUME NEW r \in Scores \cup {None}, NEW s \in Scores \cup {None}, NEW t \in Scores \cup {None},
           Less(r, s), Less(s, t)
    PROVE  Less(r, t)
<1>1. r \in Int \X Int /\ s \in Int \X Int /\ t \in Int \X Int
    BY PredictionAssumption DEF Less
<1> QED
    BY <1>1 DEF Less

\* What select_best_model selects is a candidate, and the baseline or better.
LEMMA SelectedWon ==
    ASSUME NEW results \in [ToSet(Candidates) -> Scores \cup {None}]
    PROVE  /\ SelectBest(results) \in ToSet(Candidates)
           /\ SelectBest(results) # "baseline" =>
                  Less(results[SelectBest(results)], results["baseline"])
<1> DEFINE N == Len(Candidates)
           Won(c) == c # "baseline" => Less(results[c], results["baseline"])
<1>1. PICK best : Scan(results, N, best) /\ SelectBest(results) = best[N]
    BY SelectBestScans
<1> DEFINE Good == {i \in 1..N : best[i] \in ToSet(Candidates) /\ Won(best[i])}
<1>2. 1 \in Good
    BY <1>1, CandidateFacts DEF Scan
<1>3. ASSUME NEW i \in 1..N, i \in Good, i + 1 <= N PROVE i + 1 \in Good
  <2>1. i + 1 \in 1..N /\ i + 1 # 1
    BY <1>3, CandidateFacts
  <2> DEFINE c == Candidates[i + 1]
             kept == best[i]
  <2>2. best[i + 1] = Better(results, c, kept)
    BY <1>1, <2>1 DEF Scan
  <2>3. c \in ToSet(Candidates) /\ kept \in ToSet(Candidates) /\ Won(kept)
    BY <1>3, <2>1, CandidateFacts
  <2>4. CASE ~ Less(results[c], results[kept])
    BY <2>1, <2>2, <2>3, <2>4 DEF Better
  <2>5. CASE Less(results[c], results[kept])
    <3>1. best[i + 1] = c
        BY <2>2, <2>5 DEF Better
    <3>2. results[c] \in Scores \cup {None} /\ results[kept] \in Scores \cup {None}
          /\ results["baseline"] \in Scores \cup {None}
        BY <2>3, CandidateFacts
    <3>3. Won(c)
        BY <2>3, <2>5, <3>2, LessIsTransitive
    <3> QED
        BY <2>1, <2>3, <3>1, <3>3
  <2> QED
    BY <2>4, <2>5
<1>4. N \in Nat /\ N \in 1..N
    BY CandidateFacts
<1>5. 1..N \subseteq Good
  <2> HIDE DEF N, Good
  <2> QED
    BY <1>2, <1>3, <1>4, UpTo
<1>6. N \in Good
    BY <1>4, <1>5
<1> QED
    BY <1>1, <1>6

\* A model that has beaten the baseline, on results that the selection saw.
Winner(model) ==
    /\ model \in Model
    /\ Less(model.results[model.algorithm], model.results["baseline"])

\* Whatever is being written, on disk or in use is such a model, torn or absent.
WinnersOnly ==
    /\ writing # None => Winner(writing) /\ artifact = Torn
    /\ artifact \notin {None, Torn} => Winner(artifact)
    /\ loaded # None => Winner(loaded)

LEMMA ResultsTyped ==
    ASSUME NEW test
    PROVE  Results(test) \subseteq [ToSet(Candidates) -> Scores \cup {None}]
BY DEF Results

\* A model that is written has won.
LEMMA ModelWinsWinner ==
    ASSUME NEW results \in [ToSet(Candidates) -> Scores \cup {None}], ModelWins(results),
           runs \in 0..MaxRuns, runs < MaxRuns
    PROVE  Winner(writing') /\ artifact' = Torn
<1>1. runs + 1 \in 1..MaxRuns
    BY PredictionAssumption
<1>2. writing' = [run |-> runs + 1, algorithm |-> SelectBest(results), results |-> results]
    BY DEF ModelWins
<1>3. SelectBest(results) \in ToSet(Candidates) \ {"baseline"}
      /\ Less(results[SelectBest(results)], results["baseline"])
    BY SelectedWon DEF ModelWins
<1> QED
    BY <1>1, <1>2, <1>3 DEF ModelWins, Winner, Model

Counters == runs \in 0..MaxRuns /\ restarts \in 0..MaxRestarts

LEMMA WinnersStep ==
    ASSUME WinnersOnly, Counters, [Next]_vars
    PROVE  WinnersOnly' /\ Counters'
<1>1. CASE PersistModel
  <2>1. /\ writing = None /\ runs < MaxRuns /\ runs' = runs + 1
        /\ UNCHANGED <<loaded, restarts>>
    BY <1>1 DEF PersistModel
  <2>2. PICK results \in [ToSet(Candidates) -> Scores \cup {None}] :
            BaselineWins(results) \/ ModelWins(results)
    BY <1>1, ResultsTyped DEF PersistModel
  <2>3. Counters'
    BY <2>1, PredictionAssumption DEF Counters
  <2>4. CASE BaselineWins(results)
    BY <2>1, <2>3, <2>4 DEF BaselineWins, WinnersOnly
  <2>5. CASE ModelWins(results)
    BY <2>1, <2>3, <2>5, ModelWinsWinner DEF WinnersOnly, Counters
  <2> QED
    BY <2>2, <2>4, <2>5
<1>2. CASE DumpFinished
    BY <1>2 DEF DumpFinished, WinnersOnly, Counters
<1>3. CASE DumpCrashed
    BY <1>3 DEF DumpCrashed, WinnersOnly, Counters
<1>4. CASE Restart
    BY <1>4, PredictionAssumption DEF Restart, LoadModelArtifact, WinnersOnly, Counters
<1>5. CASE UNCHANGED <<runs, writing, artifact, loaded, restarts>>
    BY <1>5 DEF WinnersOnly, Counters
<1> QED
    BY <1>1, <1>2, <1>3, <1>4, <1>5 DEF Next, vars, Ingest, ReadCurrentState, Answer

\* A set of readings that grows one by one is finite.
Finite == \A b \in Batteries : IsFiniteSet(telemetry[b])

LEMMA FiniteStep ==
    ASSUME Finite, TelemetryOK, [Next]_vars
    PROVE  Finite'
<1>1. ASSUME NEW b \in Batteries, Ingest(b) PROVE Finite'
  <2>1. PICK r : telemetry' = [telemetry EXCEPT ![b] = @ \cup {r}]
    BY <1>1 DEF Ingest
  <2>2. IsFiniteSet(telemetry[b] \cup {r})
    BY FS_AddElement DEF Finite
  <2> QED
    BY <2>1, <2>2 DEF Finite, TelemetryOK
<1> QED
    BY <1>1 DEF Next, vars, Finite, ReadCurrentState, PersistModel, DumpFinished,
       DumpCrashed, Restart, Answer

Phases == request.phase \in {"idle", "read", "answered"}

LEMMA PhasesStep == ASSUME Phases, [Next]_vars PROVE Phases'
<1>1. CASE \E b \in Asked : ReadCurrentState(b)
  <2>1. PICK b \in Asked : \E current \in CurrentStates(b) :
          request' = [phase |-> "read", battery |-> b, current |-> current]
    BY <1>1 DEF ReadCurrentState
  <2> QED
    BY <2>1 DEF Phases
<1>2. CASE \E fails \in BOOLEAN : Answer(fails)
    BY <1>2, AnswerStep DEF Phases
<1>3. CASE Restart
    BY <1>3 DEF Phases, Restart, Idle
<1>4. CASE UNCHANGED request
    BY <1>4 DEF Phases
<1> QED
    BY <1>1, <1>2, <1>3, <1>4 DEF Next, vars, Ingest, PersistModel, DumpFinished, DumpCrashed

LifeInv == WinnersOnly /\ Counters /\ Finite /\ Phases

LEMMA LifeInvariant == Spec => [](IInv /\ LifeInv)
<1>1. Init => LifeInv
    BY FS_EmptySet, PredictionAssumption
       DEF Init, LifeInv, WinnersOnly, Counters, Finite, Phases, Idle
<1>2. IInv /\ LifeInv /\ [Next]_vars => LifeInv'
    BY WinnersStep, FiniteStep, PhasesStep DEF IInv, LifeInv
<1> QED
    BY <1>1, <1>2, Invariance, PTL DEF Spec

\* Types of the stored readings, of the artifact's life and of the request.
THEOREM PredictionTypeCorrect == Spec => []TypeOK
<1>1. IInv /\ LifeInv => TypeOK
    BY DEF IInv, TelemetryOK, LifeInv, Finite, Counters, Phases, WinnersOnly, Winner, TypeOK
<1> QED
    BY <1>1, LifeInvariant, PTL

\* No model is served but a whole one, that beat the baseline and did not tie
\* with it, whenever a dump, a crash or a restart comes.
THEOREM ServedModelWonHolds == Spec => []ServedModelWon
<1>1. LifeInv => ServedModelWon
    BY DEF LifeInv, WinnersOnly, Winner, ServedModelWon
<1> QED
    BY <1>1, LifeInvariant, PTL

-----------------------------------------------------------------------------
(***************************************************************************)
(* The first critical reading behind a position, that a label counts to.   *)
(***************************************************************************)

\* In a finite total order, where Down[x] holds what is not above x, every
\* place from 1 to the number of members is that of one member.
LEMMA Ranks ==
    ASSUME NEW S, IsFiniteSet(S), NEW Down \in [S -> SUBSET S],
           \A x \in S : x \in Down[x],
           \A x, y \in S : x \in Down[y] \/ y \in Down[x],
           \A x, y \in S : x \in Down[y] /\ y \in Down[x] => x = y,
           \A x, y \in S : x \in Down[y] => Down[x] \subseteq Down[y]
    PROVE  /\ Cardinality(S) \in Nat
           /\ \A x \in S : Cardinality(Down[x]) \in 1..Cardinality(S)
           /\ \A x, y \in S : x \in Down[y] <=> Cardinality(Down[x]) <= Cardinality(Down[y])
           /\ \A k \in 1..Cardinality(S) : \E x \in S : Cardinality(Down[x]) = k
<1> DEFINE n == Cardinality(S)
           rank == [x \in S |-> Cardinality(Down[x])]
<1>1. n \in Nat
    BY FS_CardinalityType
<1>2. \A x \in S : IsFiniteSet(Down[x]) /\ Cardinality(Down[x]) \in 1..n
  <2> TAKE x \in S
  <2>1. IsFiniteSet(Down[x]) /\ Cardinality(Down[x]) <= n
    BY FS_Subset
  <2>2. Cardinality(Down[x]) \in Nat /\ Cardinality(Down[x]) # 0
    BY <2>1, FS_CardinalityType, FS_EmptySet
  <2> QED
    BY <1>1, <2>1, <2>2
<1>3. ASSUME NEW x \in S, NEW y \in S, x \in Down[y], x # y
      PROVE  Cardinality(Down[x]) < Cardinality(Down[y])
  <2>1. Down[x] \subseteq Down[y] /\ Down[x] # Down[y]
    BY <1>3
  <2>2. Cardinality(Down[x]) <= Cardinality(Down[y]) /\ Cardinality(Down[x]) # Cardinality(Down[y])
    BY <1>2, <2>1, FS_Subset
  <2> QED
    BY <1>2, <2>2
<1>4. \A x, y \in S : x \in Down[y] <=> Cardinality(Down[x]) <= Cardinality(Down[y])
  <2> TAKE x, y \in S
  <2>1. Cardinality(Down[x]) \in Int /\ Cardinality(Down[y]) \in Int
    BY <1>2
  <2> QED
    BY <1>3, <2>1
<1>5. rank \in Injection(S, 1..n)
  <2>1. rank \in [S -> 1..n]
    BY <1>2
  <2>2. \A x, y \in S : rank[x] = rank[y] => x = y
    BY <1>2, <1>4
  <2> QED
    BY <2>1, <2>2 DEF Injection, IsInjective
<1>6. IsFiniteSet(1..n) /\ Cardinality(1..n) = n
    BY <1>1, FS_Interval
<1>7. rank \in Surjection(S, 1..n)
    BY <1>5, <1>6, FS_Injection
<1>8. \A k \in 1..n : \E x \in S : Cardinality(Down[x]) = k
    BY <1>7 DEF Surjection
<1> QED
    BY <1>1, <1>2, <1>4, <1>8

\* ORDER BY timestamp: every reading once, an earlier one at an earlier place.
LEMMA SortedFacts ==
    ASSUME NEW history \in SUBSET Reading, IsFiniteSet(history), OncePerTime(history)
    PROVE  /\ Cardinality(history) \in Nat
           /\ Sorted(history) \in [1..Cardinality(history) -> history]
           /\ \A q \in history : \E k \in 1..Cardinality(history) : Sorted(history)[k] = q
           /\ \A i, j \in 1..Cardinality(history) :
                  Sorted(history)[i].timestamp <= Sorted(history)[j].timestamp <=> i <= j
<1> DEFINE n == Cardinality(history)
           Down == [q \in history |-> {o \in history : o.timestamp <= q.timestamp}]
<1>1. \A q \in history : q.timestamp \in Int
    BY DEF Reading
<1>2. Down \in [history -> SUBSET history]
    OBVIOUS
<1>3. \A x, y \in history : x \in Down[y] <=> x.timestamp <= y.timestamp
    OBVIOUS
<1>4. \A x, y \in history : x \in Down[y] => Down[x] \subseteq Down[y]
    BY <1>1
<1>5. \A k \in 1..n : Sorted(history)[k] = CHOOSE q \in history : Cardinality(Down[q]) = k
    BY DEF Sorted
<1> HIDE DEF Down
<1>6. /\ n \in Nat
      /\ \A x \in history : Cardinality(Down[x]) \in 1..n
      /\ \A x, y \in history : x \in Down[y] <=> Cardinality(Down[x]) <= Cardinality(Down[y])
      /\ \A k \in 1..n : \E x \in history : Cardinality(Down[x]) = k
  <2>1. /\ \A x \in history : x \in Down[x]
        /\ \A x, y \in history : x \in Down[y] \/ y \in Down[x]
        /\ \A x, y \in history : x \in Down[y] /\ y \in Down[x] => x = y
    BY <1>1, <1>3 DEF OncePerTime
  <2> QED
    BY <1>2, <1>4, <2>1, Ranks
<1>7. \A k \in 1..n : Sorted(history)[k] \in history /\ Cardinality(Down[Sorted(history)[k]]) = k
    BY <1>5, <1>6
<1>8. Sorted(history) \in [1..n -> history]
    BY <1>7 DEF Sorted
<1>9. \A q \in history : \E k \in 1..n : Sorted(history)[k] = q
  <2> TAKE q \in history
  <2> DEFINE k == Cardinality(Down[q])
  <2>1. k \in 1..n
    BY <1>6
  <2>2. q \in Down[Sorted(history)[k]] /\ Sorted(history)[k] \in Down[q]
    BY <1>6, <1>7, <2>1
  <2>3. Sorted(history)[k] = q
    BY <1>1, <1>3, <1>7, <2>1, <2>2 DEF OncePerTime
  <2> QED
    BY <2>1, <2>3
<1>10. \A i, j \in 1..n : Sorted(history)[i].timestamp <= Sorted(history)[j].timestamp <=> i <= j
    BY <1>3, <1>6, <1>7
<1> QED
    BY <1>6, <1>8, <1>9, <1>10

\* next is a table that the backward pass fills from the end.
BackwardStep(df, n, next) ==
    \A i \in 1..n :
        next[i] = IF i = n THEN 0
                  ELSE IF IsCritical(df[i + 1]) THEN i + 1 ELSE next[i + 1]

\* There is such a table (the recursive function is well defined).
LEMMA NextCriticalExists ==
    ASSUME NEW n \in Nat, NEW df \in [1..n -> Reading]
    PROVE  \E next : next = [i \in 1..n |-> next[i]] /\ BackwardStep(df, n, next)
<1> DEFINE Behind(i) == {j \in (i + 1)..n : IsCritical(df[j])}
           next == [i \in 1..n |-> IF Behind(i) = {} THEN 0
                                   ELSE CHOOSE j \in Behind(i) : \A k \in Behind(i) : j <= k]
<1>1. \A i \in 1..n : \/ Behind(i) = {} /\ next[i] = 0
                      \/ next[i] \in Behind(i) /\ \A k \in Behind(i) : next[i] <= k
  <2> TAKE i \in 1..n
  <2>1. Behind(i) \in SUBSET Nat
    OBVIOUS
  <2>2. CASE Behind(i) # {}
    <3> DEFINE B == Behind(i)
    <3>1. next[i] = CHOOSE j \in B : \A k \in B : j <= k
        BY <2>2
    <3>2. B \in SUBSET Nat /\ B # {}
        BY <2>1, <2>2
    <3> HIDE DEF B
    <3>3. next[i] \in B /\ \A k \in B : next[i] <= k
        BY <3>1, <3>2, LeastOf
    <3> QED
        BY <3>3 DEF B
  <2> QED
    BY <2>2
<1>2. \A i \in 1..n : \A j : j \in Behind(i) <=> j \in (i + 1)..n /\ IsCritical(df[j])
    OBVIOUS
<1>3. next = [i \in 1..n |-> next[i]]
    OBVIOUS
<1> HIDE DEF next, Behind
<1>4. ASSUME NEW i \in 1..n
      PROVE  next[i] = IF i = n THEN 0
                       ELSE IF IsCritical(df[i + 1]) THEN i + 1 ELSE next[i + 1]
  <2>1. CASE i = n
    BY <1>1, <1>2, <2>1
  <2>2. CASE i # n /\ IsCritical(df[i + 1])
    <3>1. i + 1 \in Behind(i)
        BY <1>2, <2>2
    <3>2. next[i] \in (i + 1)..n /\ next[i] <= i + 1
        BY <1>1, <1>2, <3>1
    <3> QED
        BY <2>2, <3>2
  <2>3. CASE i # n /\ ~IsCritical(df[i + 1])
    <3>1. i + 1 \in 1..n
        BY <2>3
    <3>2. \A j : j \in Behind(i) <=> j \in Behind(i + 1)
      <4> TAKE j
      <4>1. j \in (i + 1)..n /\ IsCritical(df[j]) <=> j \in (i + 1 + 1)..n /\ IsCritical(df[j])
        BY <2>3
      <4> QED
        BY <1>2, <3>1, <4>1
    <3>3. \/ Behind(i) = {} /\ next[i] = 0 /\ next[i + 1] = 0
          \/ /\ next[i] \in Behind(i) /\ next[i + 1] \in Behind(i)
             /\ next[i] <= next[i + 1] /\ next[i + 1] <= next[i]
        BY <1>1, <3>1, <3>2
    <3>4. next[i] = next[i + 1]
        BY <1>2, <3>3
    <3> QED
        BY <2>3, <3>4
  <2> QED
    BY <2>1, <2>2, <2>3
<1> QED
    BY <1>3, <1>4 DEF BackwardStep

\* next[i] is the position of the first critical reading behind position i, or 0.
FirstBehind(df, n, i, at) ==
    /\ at # 0 => at \in (i + 1)..n /\ IsCritical(df[at])
    /\ \A j \in (i + 1)..n : IsCritical(df[j]) => at # 0 /\ at <= j

\* Such a table holds, for each position, the first critical one behind it.
LEMMA BackwardFinds ==
    ASSUME NEW n \in Nat, NEW df, NEW next, BackwardStep(df, n, next)
    PROVE  \A i \in 1..n : FirstBehind(df, n, i, next[i])
<1> DEFINE Found == {k \in 1..n : FirstBehind(df, n, n + 1 - k, next[n + 1 - k])}
<1>1. CASE n # 0
  <2>1. 1 \in Found
    <3>1. next[n] = 0
        BY <1>1 DEF BackwardStep
    <3>2. FirstBehind(df, n, n, next[n])
        BY <3>1 DEF FirstBehind
    <3>3. n + 1 - 1 = n /\ 1 \in 1..n
        BY <1>1
    <3> QED
        BY <3>2, <3>3
  <2>2. ASSUME NEW k \in 1..n, k \in Found, k + 1 <= n PROVE k + 1 \in Found
    <3> DEFINE i == n - k
    <3>1. i \in 1..n /\ i # n /\ i + 1 \in 1..n /\ n + 1 - k = i + 1 /\ n + 1 - (k + 1) = i
        BY <2>2
    <3>2. FirstBehind(df, n, i + 1, next[i + 1])
        BY <2>2, <3>1
    <3>3. next[i] = IF IsCritical(df[i + 1]) THEN i + 1 ELSE next[i + 1]
        BY <3>1 DEF BackwardStep
    <3> HIDE DEF i
    <3>4. FirstBehind(df, n, i, next[i])
      <4>1. CASE IsCritical(df[i + 1])
        BY <3>1, <3>3, <4>1 DEF FirstBehind
      <4>2. CASE ~IsCritical(df[i + 1])
        <5>1. \A j \in (i + 1)..n : IsCritical(df[j]) => j \in (i + 1 + 1)..n
            <6> TAKE j \in (i + 1)..n
            <6>1. j = i + 1 \/ j \in (i + 1 + 1)..n
                BY <3>1
            <6> QED
                BY <4>2, <6>1
        <5>2. \A j \in (i + 1 + 1)..n : j \in (i + 1)..n
            BY <3>1
        <5> QED
            BY <3>2, <3>3, <4>2, <5>1, <5>2 DEF FirstBehind
      <4> QED
        BY <4>1, <4>2
    <3> QED
        BY <2>2, <3>1, <3>4
  <2>3. 1..n \subseteq Found
    <3> HIDE DEF Found
    <3> QED
        BY <2>1, <2>2, UpTo
  <2>4. ASSUME NEW i \in 1..n PROVE FirstBehind(df, n, i, next[i])
    <3>1. n + 1 - i \in Found /\ n + 1 - (n + 1 - i) = i
        BY <2>3
    <3> QED
        BY <3>1
  <2> QED
    BY <2>4
<1> QED
    BY <1>1

\* So does that of _next_critical_index.
LEMMA NextCriticalFinds ==
    ASSUME NEW n \in Nat, NEW df \in [1..n -> Reading]
    PROVE  \A i \in 1..n : FirstBehind(df, n, i, NextCriticalIndex(df)[i])
<1> DEFINE Steps(next) ==
        next = [i \in 1..Len(df) |->
                   IF i = Len(df) THEN 0
                   ELSE IF IsCritical(df[i + 1]) THEN i + 1 ELSE next[i + 1]]
<1>1. Len(df) = n
    OBVIOUS
<1>2. PICK f : f = [i \in 1..n |-> f[i]] /\ BackwardStep(df, n, f)
    BY NextCriticalExists
<1>3. Steps(f)
  <2>1. \A i \in 1..n : f[i] = IF i = n THEN 0
                               ELSE IF IsCritical(df[i + 1]) THEN i + 1 ELSE f[i + 1]
    BY <1>2 DEF BackwardStep
  <2>2. f = [i \in 1..n |-> IF i = n THEN 0
                            ELSE IF IsCritical(df[i + 1]) THEN i + 1 ELSE f[i + 1]]
    BY <1>2, <2>1
  <2> QED
    BY <1>1, <2>2
<1> DEFINE next == CHOOSE g : Steps(g)
<1>4. Steps(next)
    BY <1>3
<1>5. NextCriticalIndex(df) = next
    BY DEF NextCriticalIndex
<1>6. BackwardStep(df, n, next)
    BY <1>1, <1>4 DEF BackwardStep
<1> HIDE DEF next
<1> QED
    BY <1>5, <1>6, BackwardFinds

\* What a row of the training set says: when, and how long until the first
\* critical reading of the battery after that moment.
LabelOK(history, row) ==
    LET critical == {q \in history : q.timestamp > row.timestamp /\ IsCritical(q)}
    IN  /\ \E q \in critical : q.timestamp - row.timestamp = row.minutes_to_critical
        /\ \A q \in critical : q.timestamp - row.timestamp >= row.minutes_to_critical

\* A row made at a position counts to the first critical reading behind it.
LEMMA RowLabel ==
    ASSUME NEW history \in SUBSET Reading, IsFiniteSet(history), OncePerTime(history),
           NEW i \in 1..Cardinality(history), NextCriticalIndex(Sorted(history))[i] # 0,
           NEW row, row.timestamp = Sorted(history)[i].timestamp,
           row.minutes_to_critical = Sorted(history)[NextCriticalIndex(Sorted(history))[i]].timestamp
                                         - Sorted(history)[i].timestamp
    PROVE  LabelOK(history, row)
<1> DEFINE n == Cardinality(history)
           df == Sorted(history)
           at == NextCriticalIndex(df)[i]
<1>1. /\ n \in Nat /\ df \in [1..n -> history]
      /\ \A q \in history : \E k \in 1..n : df[k] = q
      /\ \A k, l \in 1..n : df[k].timestamp <= df[l].timestamp <=> k <= l
    BY SortedFacts
<1>2. df \in [1..n -> Reading]
    BY <1>1
<1>3. FirstBehind(df, n, i, at)
    BY <1>1, <1>2, NextCriticalFinds
<1>4. \A k \in 1..n : df[k].timestamp \in Int
    BY <1>2 DEF Reading
<1>5. row.timestamp = df[i].timestamp /\ row.minutes_to_critical = df[at].timestamp - df[i].timestamp
      /\ at # 0
    OBVIOUS
<1> HIDE DEF n, df, at
<1>6. at \in 1..n /\ i < at /\ IsCritical(df[at]) /\ i \in 1..n
    BY <1>1, <1>3, <1>5 DEF FirstBehind, n
<1>7. df[at] \in history /\ df[at].timestamp > df[i].timestamp
  <2>1. ~ (df[at].timestamp <= df[i].timestamp)
    BY <1>1, <1>6
  <2> QED
    BY <1>1, <1>4, <1>6, <2>1
<1>8. ASSUME NEW q \in history, q.timestamp > df[i].timestamp, IsCritical(q)
      PROVE  q.timestamp >= df[at].timestamp
  <2>1. PICK k \in 1..n : df[k] = q
    BY <1>1
  <2>2. ~ (df[k].timestamp <= df[i].timestamp)
    BY <1>4, <1>6, <1>8, <2>1
  <2>3. k \in (i + 1)..n
    BY <1>1, <1>6, <2>1, <2>2
  <2>4. at <= k
    BY <1>3, <1>8, <2>1, <2>3 DEF FirstBehind
  <2>5. df[at].timestamp <= df[k].timestamp
    BY <1>1, <1>6, <2>4
  <2> QED
    BY <1>4, <1>6, <2>1, <2>5
<1>9. \A q \in history : q.timestamp \in Int
    BY DEF Reading
<1> QED
    BY <1>4, <1>5, <1>6, <1>7, <1>8, <1>9 DEF LabelOK

\* The rows of a battery are its own, their labels are true, and no two of them
\* are of one moment.
LEMMA RowsFacts ==
    ASSUME NEW history \in SUBSET Reading, IsFiniteSet(history), OncePerTime(history), NEW b
    PROVE  \E m \in Nat :
              /\ DOMAIN RowsForBattery(b, history) = 1..m
              /\ RowsForBattery(b, history) = [k \in 1..m |-> RowsForBattery(b, history)[k]]
              /\ \A k \in 1..m :
                    /\ RowsForBattery(b, history)[k].battery_id = b
                    /\ RowsForBattery(b, history)[k].timestamp \in Int
                    /\ LabelOK(history, RowsForBattery(b, history)[k])
              /\ \A k, l \in 1..m :
                    RowsForBattery(b, history)[k].timestamp = RowsForBattery(b, history)[l].timestamp
                        => k = l
<1> DEFINE df == Sorted(history)
           n == Cardinality(history)
           next == NextCriticalIndex(df)
           eligible == {i \in DOMAIN df : Trainable(history, df[i]) /\ next[i] # 0}
           Down == [i \in eligible |-> {j \in eligible : j <= i}]
           m == Cardinality(eligible)
           at(k) == CHOOSE i \in eligible : Cardinality({j \in eligible : j <= i}) = k
           rows == RowsForBattery(b, history)
<1>1. /\ n \in Nat /\ df \in [1..n -> history]
      /\ \A k, l \in 1..n : df[k].timestamp <= df[l].timestamp <=> k <= l
    BY SortedFacts
<1>2. rows = [k \in 1..m |-> [battery_id |-> b, timestamp |-> df[at(k)].timestamp,
                              features |-> FeaturesForPoint(history, df[at(k)]),
                              minutes_to_critical |-> df[next[at(k)]].timestamp - df[at(k)].timestamp]]
    BY DEF RowsForBattery
<1>3. eligible \subseteq 1..n /\ \A i \in eligible : next[i] # 0
    BY <1>1
<1> HIDE DEF rows, next, df, n
<1>4. IsFiniteSet(eligible)
    BY <1>1, <1>3, FS_Interval, FS_Subset
<1> HIDE DEF eligible
<1>5. Down \in [eligible -> SUBSET eligible]
    OBVIOUS
<1>6. \A x, y \in eligible : x \in Down[y] <=> x <= y
    OBVIOUS
<1>7. ASSUME NEW x \in eligible, NEW y \in eligible, x \in Down[y]
      PROVE  Down[x] \subseteq Down[y]
  <2>1. Down[x] \subseteq eligible /\ eligible \subseteq Int
    BY <1>1, <1>3
  <2>2. ASSUME NEW z \in Down[x] PROVE z \in Down[y]
    <3>1. z \in eligible /\ z <= x /\ x <= y
        BY <1>6, <1>7, <2>1
    <3>2. z \in Int /\ x \in Int /\ y \in Int
        BY <2>1, <3>1
    <3>3. z <= y
        BY <3>1, <3>2
    <3> QED
        BY <1>6, <3>1, <3>3
  <2> QED
    BY <2>2
<1>8. \A k : at(k) = CHOOSE i \in eligible : Cardinality(Down[i]) = k
    OBVIOUS
<1> HIDE DEF Down
<1>9. m \in Nat /\ \A k \in 1..m : \E x \in eligible : Cardinality(Down[x]) = k
  <2>1. /\ \A x \in eligible : x \in Down[x]
        /\ \A x, y \in eligible : x \in Down[y] \/ y \in Down[x]
        /\ \A x, y \in eligible : x \in Down[y] /\ y \in Down[x] => x = y
    BY <1>1, <1>3, <1>6
  <2> QED
    BY <1>4, <1>5, <1>7, <2>1, Ranks
<1>10. \A k \in 1..m : at(k) \in eligible /\ Cardinality(Down[at(k)]) = k
    BY <1>8, <1>9
<1> HIDE DEF at
<1>11. ASSUME NEW k \in 1..m
       PROVE  /\ rows[k].battery_id = b
              /\ rows[k].timestamp = df[at(k)].timestamp
              /\ rows[k].timestamp \in Int
              /\ LabelOK(history, rows[k])
  <2>1. at(k) \in 1..n /\ next[at(k)] # 0
    BY <1>3, <1>10
  <2>2. /\ rows[k].battery_id = b
        /\ rows[k].timestamp = df[at(k)].timestamp
        /\ rows[k].minutes_to_critical = df[next[at(k)]].timestamp - df[at(k)].timestamp
    BY <1>2
  <2>3. df[at(k)] \in Reading
    BY <1>1, <2>1
  <2>4. LabelOK(history, rows[k])
    BY <2>1, <2>2, RowLabel DEF df, n, next
  <2> QED
    BY <2>2, <2>3, <2>4 DEF Reading
<1>12. ASSUME NEW k \in 1..m, NEW l \in 1..m, rows[k].timestamp = rows[l].timestamp PROVE k = l
  <2>1. at(k) \in 1..n /\ at(l) \in 1..n /\ df[at(k)].timestamp = df[at(l)].timestamp
    BY <1>3, <1>10, <1>11, <1>12
  <2>2. df[at(k)].timestamp \in Int /\ df[at(l)].timestamp \in Int
    BY <1>11, <2>1
  <2>3. at(k) = at(l)
    BY <1>1, <2>1, <2>2
  <2> QED
    BY <1>10, <2>3
<1>13. DOMAIN rows = 1..m /\ rows = [k \in 1..m |-> rows[k]]
    BY <1>2
<1> QED
    BY <1>9, <1>11, <1>12, <1>13 DEF rows

\* Every stored history can be sorted: it is finite and has one reading a time.
LEMMA HistoryFacts ==
    ASSUME IInv, LifeInv, NEW b \in Batteries
    PROVE  /\ telemetry[b] \in SUBSET Reading
           /\ IsFiniteSet(telemetry[b])
           /\ OncePerTime(telemetry[b])
BY DEF IInv, TelemetryOK, LifeInv, Finite

\* Every training row says the time to the first critical reading after it,
\* for any history (build_dataset.py, _next_critical_index).
THEOREM LabelsAreTrueHolds == Spec => []LabelsAreTrue
<1>1. ASSUME IInv, LifeInv PROVE LabelsAreTrue
  <2> SUFFICES ASSUME NEW b \in Batteries, NEW row \in ToSet(RowsForBattery(b, telemetry[b]))
               PROVE  LabelOK(telemetry[b], row)
    BY DEF LabelsAreTrue, LabelOK
  <2> QED
    BY <1>1, HistoryFacts, RowsFacts DEF ToSet
<1> QED
    BY <1>1, LifeInvariant, PTL

-----------------------------------------------------------------------------
(***************************************************************************)
(* The dataset, and the split that a model is tested on.                   *)
(***************************************************************************)

\* The rows of all batteries, and those of one.
RowsOf(b) == ToSet(RowsForBattery(b, telemetry[b]))
AllRows == UNION {RowsOf(b) : b \in Batteries}

DistinctRows(dataset) == \A i, j \in DOMAIN dataset : dataset[i] = dataset[j] => i = j

Concat(s, t) == s \o t

\* joined[i] is what the first i sequences give.
Joined(seqs, n, joined) ==
    \A i \in 1..n : joined[i] = IF i = 1 THEN seqs[i] ELSE Concat(joined[i - 1], seqs[i])

\* The rows of one battery: its own, and one per timestamp.
LEMMA RowsSequence ==
    ASSUME IInv, LifeInv, NEW b \in Batteries
    PROVE  /\ RowsForBattery(b, telemetry[b]) \in Seq(AllRows)
           /\ DistinctRows(RowsForBattery(b, telemetry[b]))
           /\ \A i \in DOMAIN RowsForBattery(b, telemetry[b]) :
                 RowsForBattery(b, telemetry[b])[i].battery_id = b
           /\ \A r \in RowsOf(b) : r.timestamp \in Int
<1> DEFINE rows == RowsForBattery(b, telemetry[b])
<1>0. /\ telemetry[b] \in SUBSET Reading
      /\ IsFiniteSet(telemetry[b])
      /\ OncePerTime(telemetry[b])
    BY HistoryFacts
<1>1. PICK m \in Nat :
        /\ DOMAIN rows = 1..m
        /\ rows = [k \in 1..m |-> rows[k]]
        /\ \A k \in 1..m : rows[k].battery_id = b /\ rows[k].timestamp \in Int
        /\ \A k, l \in 1..m : rows[k].timestamp = rows[l].timestamp => k = l
  <2> HIDE DEF rows
  <2>1. \E m \in Nat :
          /\ DOMAIN rows = 1..m
          /\ rows = [k \in 1..m |-> rows[k]]
          /\ \A k \in 1..m :
                /\ rows[k].battery_id = b
                /\ rows[k].timestamp \in Int
                /\ LabelOK(telemetry[b], rows[k])
          /\ \A k, l \in 1..m : rows[k].timestamp = rows[l].timestamp => k = l
    BY <1>0, RowsFacts DEF rows
  <2> QED
    BY <2>1
<1>2. \A k \in 1..m : rows[k] \in AllRows
    BY <1>1 DEF AllRows, RowsOf, ToSet
<1> HIDE DEF rows
<1>3. rows \in [1..m -> AllRows]
    BY <1>1, <1>2
<1>4. rows \in Seq(AllRows)
    BY <1>1, <1>3
<1>5. DistinctRows(rows)
    BY <1>1 DEF DistinctRows
<1>6. \A r \in RowsOf(b) : r.timestamp \in Int
    BY <1>1 DEF RowsOf, ToSet, rows
<1> QED
    BY <1>1, <1>4, <1>5, <1>6 DEF rows

\* Joining sequences of distinct rows, of one battery each.
LEMMA JoinOne ==
    ASSUME NEW X, NEW s \in Seq(X), NEW t \in Seq(X), NEW n \in Nat,
           DistinctRows(s), DistinctRows(t),
           \A i \in DOMAIN s : s[i].battery_id \in 1..n,
           \A i \in DOMAIN t : t[i].battery_id = n + 1
    PROVE  /\ s \o t \in Seq(X)
           /\ DistinctRows(s \o t)
           /\ \A i \in DOMAIN (s \o t) : (s \o t)[i].battery_id \in 1..(n + 1)
<1> DEFINE u == s \o t
<1>1. /\ Len(s) \in Nat /\ Len(t) \in Nat /\ u \in Seq(X)
      /\ DOMAIN s = 1..Len(s) /\ DOMAIN t = 1..Len(t) /\ DOMAIN u = 1..(Len(s) + Len(t))
    OBVIOUS
<1>2. \A i \in DOMAIN u : \/ i \in DOMAIN s /\ u[i] = s[i]
                          \/ i > Len(s) /\ i - Len(s) \in DOMAIN t /\ u[i] = t[i - Len(s)]
    OBVIOUS
<1> HIDE DEF u
<1>3. \A i \in DOMAIN u : u[i].battery_id \in 1..(n + 1)
    BY <1>2
<1>4. DistinctRows(u)
  <2> SUFFICES ASSUME NEW i \in DOMAIN u, NEW j \in DOMAIN u, u[i] = u[j] PROVE i = j
    BY DEF DistinctRows
  <2>1. i \in Int /\ j \in Int
    BY <1>1
  <2>2. CASE i \in DOMAIN s /\ u[i] = s[i] /\ j \in DOMAIN s /\ u[j] = s[j]
    BY <2>2 DEF DistinctRows
  <2>3. CASE /\ i - Len(s) \in DOMAIN t /\ u[i] = t[i - Len(s)]
             /\ j - Len(s) \in DOMAIN t /\ u[j] = t[j - Len(s)]
    <3>1. i - Len(s) = j - Len(s)
        BY <2>3 DEF DistinctRows
    <3> QED
        BY <1>1, <2>1, <3>1
  <2>4. ~ (n + 1 \in 1..n)
    OBVIOUS
  <2> QED
    BY <1>2, <2>2, <2>3, <2>4
<1> QED
    BY <1>1, <1>3, <1>4 DEF u

\* What holds of the rows of the first n batteries, joined.
JoinedOK(X, n, rows) ==
    /\ rows \in Seq(X)
    /\ DistinctRows(rows)
    /\ \A i \in DOMAIN rows : rows[i].battery_id \in 1..n

\* One sequence per battery, of its own rows.
ByBattery(X, n, seqs) ==
    \A b \in 1..n :
        /\ seqs[b] \in Seq(X)
        /\ DistinctRows(seqs[b])
        /\ \A i \in DOMAIN seqs[b] : seqs[b][i].battery_id = b

\* Joining the rows of the batteries in turn brings no row twice.
LEMMA JoinedFacts ==
    ASSUME NEW X, NEW N \in Nat, NEW seqs, ByBattery(X, N, seqs), NEW joined,
           Joined(seqs, N, joined)
    PROVE  \A n \in 1..N : JoinedOK(X, n, joined[n])
<1> DEFINE Done == {n \in 1..N : JoinedOK(X, n, joined[n])}
<1>1. CASE N # 0
  <2>1. 1 \in Done
    <3>1. 1 \in 1..N /\ joined[1] = seqs[1]
        BY <1>1 DEF Joined
    <3> QED
        BY <3>1 DEF ByBattery, JoinedOK
  <2>2. ASSUME NEW n \in 1..N, n \in Done, n + 1 <= N PROVE n + 1 \in Done
    <3>1. n + 1 \in 1..N /\ n \in Nat /\ n + 1 # 1 /\ n + 1 - 1 = n
        BY <2>2
    <3>2. joined[n + 1] = Concat(joined[n], seqs[n + 1])
        BY <3>1 DEF Joined
    <3>3. /\ joined[n] \in Seq(X) /\ DistinctRows(joined[n])
          /\ \A i \in DOMAIN joined[n] : joined[n][i].battery_id \in 1..n
        BY <2>2 DEF JoinedOK
    <3>4. /\ seqs[n + 1] \in Seq(X) /\ DistinctRows(seqs[n + 1])
          /\ \A i \in DOMAIN seqs[n + 1] : seqs[n + 1][i].battery_id = n + 1
        BY <3>1 DEF ByBattery
    <3>5. JoinedOK(X, n + 1, Concat(joined[n], seqs[n + 1]))
        BY <3>1, <3>3, <3>4, JoinOne DEF JoinedOK, Concat
    <3> QED
        BY <3>1, <3>2, <3>5
  <2>3. 1..N \subseteq Done
    <3> HIDE DEF Done
    <3> QED
        BY <2>1, <2>2, UpTo
  <2> QED
    BY <2>3
<1> QED
    BY <1>1

\* Sequences can be joined (the recursive function of FlattenSeq is well defined).
LEMMA JoinedExists ==
    ASSUME NEW N \in Nat, NEW seqs
    PROVE  \E joined : joined = [i \in 1..N |-> joined[i]] /\ Joined(seqs, N, joined)
<1> DEFINE Done == {n \in 1..N : \E joined : joined = [i \in 1..n |-> joined[i]] /\ Joined(seqs, n, joined)}
<1>1. CASE N # 0
  <2>1. 1 \in Done
    <3> DEFINE joined == [i \in 1..1 |-> seqs[1]]
    <3>1. joined = [i \in 1..1 |-> joined[i]] /\ Joined(seqs, 1, joined)
        BY DEF Joined
    <3> QED
        BY <1>1, <3>1
  <2>2. ASSUME NEW n \in 1..N, n \in Done, n + 1 <= N PROVE n + 1 \in Done
    <3>1. PICK joined : joined = [i \in 1..n |-> joined[i]] /\ Joined(seqs, n, joined)
        BY <2>2
    <3> DEFINE next == [i \in 1..(n + 1) |->
                           IF i = n + 1 THEN Concat(joined[n], seqs[n + 1]) ELSE joined[i]]
    <3>2. next = [i \in 1..(n + 1) |-> next[i]]
        OBVIOUS
    <3>3. next[n + 1] = Concat(joined[n], seqs[n + 1]) /\ \A i \in 1..n : next[i] = joined[i]
        BY <2>2
    <3> HIDE DEF next
    <3>4. Joined(seqs, n + 1, next)
      <4> SUFFICES ASSUME NEW i \in 1..(n + 1)
                   PROVE  next[i] = IF i = 1 THEN seqs[i] ELSE Concat(next[i - 1], seqs[i])
        BY DEF Joined
      <4>1. CASE i = n + 1
        <5>1. i # 1 /\ i - 1 = n /\ n \in 1..n
            BY <2>2, <4>1
        <5> QED
            BY <3>3, <4>1, <5>1
      <4>2. CASE i # n + 1
        <5>1. i \in 1..n /\ (i # 1 => i - 1 \in 1..n)
            BY <2>2, <4>2
        <5>2. joined[i] = IF i = 1 THEN seqs[i] ELSE Concat(joined[i - 1], seqs[i])
            BY <3>1, <5>1 DEF Joined
        <5> QED
            BY <3>3, <5>1, <5>2
      <4> QED
        BY <4>1, <4>2
    <3> QED
        BY <2>2, <3>2, <3>4
  <2>3. 1..N \subseteq Done
    <3> HIDE DEF Done
    <3> QED
        BY <2>1, <2>2, UpTo
  <2>4. N \in Done
    BY <1>1, <2>3
  <2> QED
    BY <2>4
<1>2. CASE N = 0
  <2> DEFINE none == [i \in 1..N |-> seqs]
  <2>1. none = [i \in 1..N |-> none[i]] /\ Joined(seqs, N, none)
    BY <1>2 DEF Joined
  <2> QED
    BY <2>1
<1> QED
    BY <1>1, <1>2

\* FlattenSeq joins all of them.
LEMMA FlattenFacts ==
    ASSUME NEW X, NEW N \in Nat, NEW seqs, seqs = [b \in 1..N |-> seqs[b]], ByBattery(X, N, seqs)
    PROVE  FlattenSeq(seqs) \in Seq(X) /\ DistinctRows(FlattenSeq(seqs))
<1> DEFINE Steps(g) == g = [i \in 1..Len(seqs) |-> IF i = 1 THEN seqs[i] ELSE g[i - 1] \o seqs[i]]
           flatten == CHOOSE g : Steps(g)
<1>1. Len(seqs) = N
  <2>1. seqs \in [1..N -> {seqs[b] : b \in 1..N}]
    OBVIOUS
  <2>2. seqs \in Seq({seqs[b] : b \in 1..N})
    BY <2>1
  <2> QED
    BY <2>1, <2>2
<1>2. CASE N = 0
  <2>1. FlattenSeq(seqs) = seqs /\ DOMAIN seqs = {}
    BY <1>1, <1>2 DEF FlattenSeq
  <2>2. seqs = << >>
    BY <2>1
  <2> QED
    BY <2>1, <2>2 DEF DistinctRows
<1>3. CASE N # 0
  <2>1. PICK f : f = [i \in 1..N |-> f[i]] /\ Joined(seqs, N, f)
    BY JoinedExists
  <2>2. Steps(f)
    <3>1. \A i \in 1..N : f[i] = IF i = 1 THEN seqs[i] ELSE f[i - 1] \o seqs[i]
        BY <2>1 DEF Joined, Concat
    <3> QED
        BY <1>1, <2>1, <3>1
  <2>3. Steps(flatten)
    BY <2>2
  <2>4. FlattenSeq(seqs) = flatten[N]
    BY <1>1, <1>3 DEF FlattenSeq
  <2>5. Joined(seqs, N, flatten)
    BY <1>1, <2>3 DEF Joined, Concat
  <2> HIDE DEF flatten
  <2>6. JoinedOK(X, N, flatten[N])
    BY <1>3, <2>5, JoinedFacts
  <2> QED
    BY <2>4, <2>6 DEF JoinedOK
<1> QED
    BY <1>2, <1>3

\* The dataset has no row twice: within a battery they differ by the moment.
LEMMA DatasetFacts ==
    ASSUME IInv, LifeInv
    PROVE  /\ BuildDataset(telemetry) \in Seq(AllRows)
           /\ DistinctRows(BuildDataset(telemetry))
           /\ \A r \in AllRows : r.timestamp \in Int
<1> DEFINE seqs == [b \in DOMAIN telemetry |-> RowsForBattery(b, telemetry[b])]
           N == Cardinality(Batteries)
<1>1. N \in Nat /\ Batteries = 1..N
    BY FS_CardinalityType, PredictionAssumption
<1>2. DOMAIN telemetry = 1..N
    BY <1>1 DEF IInv, TelemetryOK
<1>3. \A b \in 1..N : seqs[b] = RowsForBattery(b, telemetry[b])
    BY <1>2
<1>4. seqs = [b \in 1..N |-> seqs[b]]
    BY <1>2
<1>5. BuildDataset(telemetry) = FlattenSeq(seqs)
    BY DEF BuildDataset
<1> HIDE DEF seqs, N
<1>6. ByBattery(AllRows, N, seqs)
    BY <1>1, <1>3, RowsSequence DEF ByBattery
<1>7. FlattenSeq(seqs) \in Seq(AllRows) /\ DistinctRows(FlattenSeq(seqs))
    BY <1>1, <1>4, <1>6, FlattenFacts
<1>8. \A r \in AllRows : r.timestamp \in Int
    BY RowsSequence DEF AllRows
<1> QED
    BY <1>5, <1>7, <1>8

\* Sorting keeps every row once and puts no row before an earlier one.
LEMMA SortingFacts ==
    ASSUME NEW X, \A r \in X : r.timestamp \in Int, NEW dataset \in Seq(X)
    PROVE  LET rows == SortedByTimestamp(dataset)
               n == Len(dataset)
           IN  \E at \in [1..n -> 1..n] :
                  /\ rows = [k \in 1..n |-> dataset[at[k]]]
                  /\ \A k, l \in 1..n : at[k] = at[l] => k = l
                  /\ \A i \in 1..n : \E k \in 1..n : at[k] = i
                  /\ \A k, l \in 1..n : k <= l => rows[k].timestamp <= rows[l].timestamp
<1> DEFINE n == Len(dataset)
           D == DOMAIN dataset
           rows == SortedByTimestamp(dataset)
           Down == [i \in D |-> {j \in D : \/ dataset[j].timestamp < dataset[i].timestamp
                                           \/ dataset[j].timestamp = dataset[i].timestamp /\ j <= i}]
           Rank(i) == Cardinality({j \in D : \/ dataset[j].timestamp < dataset[i].timestamp
                                             \/ dataset[j].timestamp = dataset[i].timestamp /\ j <= i})
           pick(k) == CHOOSE i \in D : Rank(i) = k
           at == [k \in D |-> pick(k)]
<1>1. n \in Nat /\ D = 1..n /\ \A i \in D : dataset[i].timestamp \in Int
    OBVIOUS
<1>2. rows = [k \in D |-> dataset[pick(k)]]
    BY DEF SortedByTimestamp
<1>3. Down \in [D -> SUBSET D]
    OBVIOUS
<1>4. \A x, y \in D : x \in Down[y] <=> \/ dataset[x].timestamp < dataset[y].timestamp
                                        \/ dataset[x].timestamp = dataset[y].timestamp /\ x <= y
    OBVIOUS
<1>5. \A i \in D : Cardinality(Down[i]) = Rank(i)
    OBVIOUS
<1>6. D \subseteq Int
    BY <1>1
<1> HIDE DEF Down, rows, D, n, Rank
<1>7. \A k : (\E i \in D : Rank(i) = k) => pick(k) \in D /\ Rank(pick(k)) = k
    OBVIOUS
<1> HIDE DEF pick
<1>8. IsFiniteSet(D) /\ Cardinality(D) = n
  <2>1. IsFiniteSet(1..n) /\ Cardinality(1..n) = n
    BY <1>1, FS_Interval
  <2> QED
    BY <1>1, <2>1
<1>9. at = [k \in D |-> at[k]] /\ \A k \in D : at[k] = pick(k)
    OBVIOUS
<1> HIDE DEF at
<1>10. rows = [k \in D |-> dataset[at[k]]]
    BY <1>2, <1>9
<1>11. ASSUME NEW x \in D, NEW y \in D, x \in Down[y] PROVE Down[x] \subseteq Down[y]
  <2> SUFFICES ASSUME NEW z \in Down[x] PROVE z \in Down[y]
    OBVIOUS
  <2>1. z \in D
    BY <1>3
  <2> QED
    BY <1>1, <1>4, <1>6, <1>11, <2>1
<1>12. /\ \A x, y \in D : x \in Down[y] <=> Cardinality(Down[x]) <= Cardinality(Down[y])
       /\ \A k \in D : \E x \in D : Cardinality(Down[x]) = k
       /\ \A x \in D : Cardinality(Down[x]) \in D
  <2>1. /\ \A x \in D : x \in Down[x]
        /\ \A x, y \in D : x \in Down[y] \/ y \in Down[x]
        /\ \A x, y \in D : x \in Down[y] /\ y \in Down[x] => x = y
    BY <1>1, <1>4, <1>6
  <2>2. /\ \A x \in D : Cardinality(Down[x]) \in 1..Cardinality(D)
        /\ \A x, y \in D : x \in Down[y] <=> Cardinality(Down[x]) <= Cardinality(Down[y])
        /\ \A k \in 1..Cardinality(D) : \E x \in D : Cardinality(Down[x]) = k
    BY <1>3, <1>11, <1>8, <2>1, Ranks
  <2> QED
    BY <1>1, <1>8, <2>2
<1>13. \A k \in D : at[k] \in D /\ Cardinality(Down[at[k]]) = k
    BY <1>5, <1>7, <1>9, <1>12
<1>14. at \in [D -> D] /\ \A k, l \in D : at[k] = at[l] => k = l
    BY <1>9, <1>13
<1>15. ASSUME NEW i \in D PROVE \E k \in D : at[k] = i
  <2> DEFINE k == Cardinality(Down[i])
             x == at[k]
  <2>1. k \in D /\ k \in Int
    BY <1>6, <1>12
  <2>2. x \in D /\ Cardinality(Down[x]) = k /\ Cardinality(Down[i]) = k
    BY <1>13, <2>1
  <2> HIDE DEF x, k
  <2>3. x \in Down[i] /\ i \in Down[x]
    BY <1>12, <2>1, <2>2
  <2>4. x = i
    BY <1>1, <1>4, <1>6, <2>2, <2>3
  <2> QED
    BY <2>1, <2>4 DEF x
<1>16. ASSUME NEW k \in D, NEW l \in D, k <= l
       PROVE  rows[k].timestamp <= rows[l].timestamp
  <2>1. at[k] \in Down[at[l]]
    BY <1>12, <1>13, <1>16
  <2>2. rows[k] = dataset[at[k]] /\ rows[l] = dataset[at[l]]
    BY <1>10
  <2>3. dataset[at[k]].timestamp <= dataset[at[l]].timestamp
    <3>1. at[k] \in D /\ at[l] \in D
        BY <1>13
    <3>2. dataset[at[k]].timestamp \in Int /\ dataset[at[l]].timestamp \in Int
        BY <1>1, <3>1
    <3>3. \/ dataset[at[k]].timestamp < dataset[at[l]].timestamp
          \/ dataset[at[k]].timestamp = dataset[at[l]].timestamp
        BY <1>4, <2>1, <3>1
    <3> QED
        BY <3>2, <3>3
  <2> QED
    BY <2>2, <2>3
<1> QED
    BY <1>1, <1>10, <1>14, <1>15, <1>16 DEF rows, D, n

\* A split of sorted distinct rows at any place.
LEMMA SplitFacts ==
    ASSUME NEW X, \A r \in X : r.timestamp \in Int, NEW dataset \in Seq(X), DistinctRows(dataset)
    PROVE  LET split == ChronologicalSplit(dataset)
           IN  /\ \A i \in DOMAIN split.train, j \in DOMAIN split.test :
                      split.train[i].timestamp <= split.test[j].timestamp
               /\ ToSet(split.train) \cup ToSet(split.test) = ToSet(dataset)
               /\ ToSet(split.train) \cap ToSet(split.test) = {}
<1> DEFINE rows == SortedByTimestamp(dataset)
           n == Len(dataset)
           cut == (Len(rows) * 8) \div 10
           train == SubSeq(rows, 1, cut)
           test == SubSeq(rows, cut + 1, Len(rows))
<1>1. n \in Nat /\ DOMAIN dataset = 1..n /\ \A i \in 1..n : dataset[i] \in X
    OBVIOUS
<1>2. PICK at \in [1..n -> 1..n] :
          /\ rows = [k \in 1..n |-> dataset[at[k]]]
          /\ \A k, l \in 1..n : at[k] = at[l] => k = l
          /\ \A i \in 1..n : \E k \in 1..n : at[k] = i
          /\ \A k, l \in 1..n : k <= l => rows[k].timestamp <= rows[l].timestamp
    BY SortingFacts
<1>3. rows \in [1..n -> X]
    BY <1>1, <1>2
<1>4. rows \in Seq(X) /\ Len(rows) = n
    BY <1>1, <1>3
<1>5. cut \in 0..n
    BY <1>1, <1>4
<1>6. /\ ChronologicalSplit(dataset).train = train
      /\ ChronologicalSplit(dataset).test = test
    BY DEF ChronologicalSplit
<1>7. /\ DOMAIN train = 1..cut /\ \A k \in 1..cut : train[k] = rows[k]
      /\ DOMAIN test = 1..(n - cut) /\ \A k \in 1..(n - cut) : test[k] = rows[cut + k]
  <2> HIDE DEF rows
  <2>1. Len(rows) = n
    BY <1>4
  <2>2. \A c \in 0..n : /\ DOMAIN SubSeq(rows, 1, c) = 1..c
                        /\ \A k \in 1..c : SubSeq(rows, 1, c)[k] = rows[k]
                        /\ DOMAIN SubSeq(rows, c + 1, n) = 1..(n - c)
                        /\ \A k \in 1..(n - c) : SubSeq(rows, c + 1, n)[k] = rows[c + k]
    BY <1>1, <1>4
  <2> QED
    BY <1>5, <2>1, <2>2
<1> HIDE DEF rows, cut, train, test
<1>8. ASSUME NEW i \in DOMAIN train, NEW j \in DOMAIN test
      PROVE  train[i].timestamp <= test[j].timestamp
  <2>1. i \in 1..n /\ cut + j \in 1..n /\ i <= cut + j
    BY <1>1, <1>5, <1>7
  <2>2. train[i] = rows[i] /\ test[j] = rows[cut + j]
    BY <1>7
  <2>3. rows[i].timestamp <= rows[cut + j].timestamp
    BY <1>2, <2>1
  <2> QED
    BY <2>2, <2>3
<1>9. ToSet(train) \cap ToSet(test) = {}
  <2> SUFFICES ASSUME NEW i \in DOMAIN train, NEW j \in DOMAIN test, train[i] = test[j] PROVE FALSE
    BY DEF ToSet
  <2>1. i \in 1..n /\ cut + j \in 1..n /\ i # cut + j
    BY <1>1, <1>5, <1>7
  <2>2. dataset[at[i]] = dataset[at[cut + j]]
    BY <1>2, <1>7, <2>1
  <2>3. at[i] = at[cut + j]
    BY <1>1, <1>2, <2>1, <2>2 DEF DistinctRows
  <2> QED
    BY <1>2, <2>1, <2>3
<1>10. ToSet(train) \cup ToSet(test) \subseteq ToSet(dataset)
  <2>1. \A k \in 1..n : rows[k] \in ToSet(dataset)
    BY <1>1, <1>2 DEF ToSet
  <2>2. \A k \in 1..cut : train[k] \in ToSet(dataset)
    BY <1>1, <1>5, <1>7, <2>1
  <2>3. \A k \in 1..(n - cut) : test[k] \in ToSet(dataset)
    BY <1>1, <1>5, <1>7, <2>1
  <2> QED
    BY <1>7, <2>2, <2>3 DEF ToSet
<1>11. ToSet(dataset) \subseteq ToSet(train) \cup ToSet(test)
  <2> SUFFICES ASSUME NEW i \in 1..n PROVE dataset[i] \in ToSet(train) \cup ToSet(test)
    BY <1>1 DEF ToSet
  <2>1. PICK k \in 1..n : rows[k] = dataset[i]
    BY <1>2
  <2>2. CASE k <= cut
    <3>1. k \in DOMAIN train /\ train[k] = dataset[i]
        BY <1>5, <1>7, <2>1, <2>2
    <3> QED
        BY <3>1 DEF ToSet
  <2>3. CASE k > cut
    <3>1. k - cut \in DOMAIN test /\ test[k - cut] = dataset[i]
        BY <1>5, <1>7, <2>1, <2>3
    <3> QED
        BY <3>1 DEF ToSet
  <2> QED
    BY <1>5, <2>2, <2>3
<1> QED
    BY <1>6, <1>8, <1>9, <1>10, <1>11

\* No model is tested on a moment before one it was fitted on, and every row of
\* the dataset is on one side (evaluate_baseline.py, chronological_split).
THEOREM TestIsLaterHolds == Spec => []TestIsLater
<1>1. IInv /\ LifeInv => TestIsLater
    BY DatasetFacts, SplitFacts DEF TestIsLater
<1> QED
    BY <1>1, LifeInvariant, PTL
=============================================================================
