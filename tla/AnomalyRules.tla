---------------------------- MODULE AnomalyRules ----------------------------
(***************************************************************************)
(* The rules of app/services/anomaly_detection_service.py as operators:    *)
(* what one accepted reading says about each alert type.  Quantities are   *)
(* integers: state of charge in percentage points, temperature in degrees, *)
(* voltage in volts, the voltage thresholds in tenths of a percent, and    *)
(* time in ticks of the clock the readings are stamped with.               *)
(***************************************************************************)
EXTENDS Integers

CONSTANTS LowSocWarning, LowSocCritical,        \* LOW_SOC_*_PERCENT
          HighTempWarning, HighTempCritical,    \* HIGH_TEMPERATURE_*_C
          VoltageWarning, VoltageCritical,      \* VOLTAGE_ANOMALY_*_PERCENT
          RapidWarning, RapidCritical,          \* RAPID_DISCHARGE_*_POINTS
          RapidWindow                           \* RAPID_DISCHARGE_WINDOW

ASSUME ThresholdsAssumption ==
    /\ {LowSocWarning, LowSocCritical, HighTempWarning, HighTempCritical,
        VoltageWarning, VoltageCritical, RapidWarning, RapidCritical} \subseteq Int
    /\ RapidWindow \in Int

Severities == {"WARNING", "CRITICAL"}

\* The rules that a reading triggers, and the one only silence triggers.
RuleTypes  == {"LOW_SOC", "HIGH_TEMPERATURE", "VOLTAGE_ANOMALY", "RAPID_DISCHARGE"}
AlertTypes == RuleTypes \cup {"DEVICE_OFFLINE"}

\* What a rule decides: raise at a severity, resolve ("CLEAR"), or neither.
Verdicts == Severities \cup {"CLEAR", "SKIP"}

\* The order in which evaluate_rules_for_events runs the rules of one battery.
RuleRank == [LOW_SOC |-> 1, HIGH_TEMPERATURE |-> 2, VOLTAGE_ANOMALY |-> 3,
             RAPID_DISCHARGE |-> 4, DEVICE_OFFLINE |-> 5]

\* The ladder three of the rules share: the critical threshold is tried first.
Graded(measured, warning, critical) ==
    IF measured >= critical THEN "CRITICAL"
    ELSE IF measured >= warning THEN "WARNING" ELSE "CLEAR"

LowSoc(soc) ==
    IF soc <= LowSocCritical THEN "CRITICAL"
    ELSE IF soc <= LowSocWarning THEN "WARNING" ELSE "CLEAR"

HighTemperature(temp) == Graded(temp, HighTempWarning, HighTempCritical)

\* 1000 * expected_voltage = nominal * (0.9 + 0.2 * soc / 100) * 1000.
ExpectedVoltageMilli(nominal, soc) == nominal * (900 + 2 * soc)

Distance(x, y) == IF x >= y THEN x - y ELSE y - x

\* The deviation in tenths of a percent is
\* 1000 * |voltage - expected| / expected: compared without dividing.
VoltageAnomaly(voltage, soc, nominal) ==
    LET expected  == ExpectedVoltageMilli(nominal, soc)
        deviation == 1000 * Distance(1000 * voltage, expected)
    IN  IF expected <= 0 THEN "SKIP"
        ELSE Graded(deviation, VoltageWarning * expected, VoltageCritical * expected)

\* The readings _get_soc_at_or_before may return: the newest at or before the
\* cutoff.  Two readings with one timestamp are in no order, so either may come.
NewestAtOrBefore(rows, battery, cutoff) ==
    LET old == {r \in rows : r.battery_id = battery /\ r.timestamp <= cutoff}
    IN  {r \in old : \A s \in old : s.timestamp <= r.timestamp}

\* With no reading old enough the rule neither raises nor resolves.
RapidDischarge(rows, battery, soc, timestamp) ==
    LET before == NewestAtOrBefore(rows, battery, timestamp - RapidWindow)
    IN  IF before = {} THEN {"SKIP"}
        ELSE {Graded(r.state_of_charge - soc, RapidWarning, RapidCritical) : r \in before}

\* The verdicts rule t may give on reading r, with rows the telemetry it sees.
RuleVerdicts(t, r, nominal, rows) ==
    CASE t = "LOW_SOC"          -> {LowSoc(r.state_of_charge)}
      [] t = "HIGH_TEMPERATURE" -> {HighTemperature(r.temperature_c)}
      [] t = "VOLTAGE_ANOMALY"  -> {VoltageAnomaly(r.voltage, r.state_of_charge, nominal)}
      [] t = "RAPID_DISCHARGE"  -> RapidDischarge(rows, r.battery_id, r.state_of_charge,
                                                  r.timestamp)
=============================================================================
