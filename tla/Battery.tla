------------------------------ MODULE Battery -------------------------------
(***************************************************************************)
(* One simulated battery: what its usage profile asks for (profiles.py),   *)
(* what its physics makes of that (battery.py), and whether the backend    *)
(* takes what it reports for what it is: the ranges of the telemetry       *)
(* schema and the alert rules.                                             *)
(*                                                                         *)
(* Units: power in percent of max_power_kw, state of charge in percentage  *)
(* points, temperature in tenths of a degree, voltage in tenths of a volt, *)
(* the voltage noise in thousandths.  Fractions are rounded towards zero.  *)
(***************************************************************************)
EXTENDS AnomalyRules

CONSTANTS Nominal,          \* nominal_voltage, in tenths of a volt
          MaxPower,         \* max_power_kw, in watts
          PointsPerTick,    \* what max_power_kw moves the charge by in a tick
          WearPerTick,      \* what max_power_kw wears off in a tick
          HealthFull,       \* health_percent = 100, in units of wear
          Ambient,          \* ambient_temperature_c
          IdlePercent,      \* IDLE_POWER_THRESHOLD_KW
          Hours, Variations, VoltageNoises, TemperatureNoises  \* what may be drawn

\* The defaults keep the noise within the thresholds.
ASSUME BatteryAssumption ==
    /\ Nominal \in Nat /\ Nominal >= 20
    /\ MaxPower \in Nat /\ PointsPerTick \in Nat /\ WearPerTick \in Nat
    /\ HealthFull \in Nat
    /\ Ambient \in Int
    /\ IdlePercent \in Nat \ {0}
    /\ Hours \subseteq 0..23
    /\ Variations \subseteq -5..5               \* VARIATION_FRACTION
    /\ VoltageNoises \subseteq -10..10          \* VOLTAGE_NOISE_FRACTION
    /\ TemperatureNoises \subseteq -5..5        \* TEMPERATURE_NOISE_C
    /\ VoltageWarning >= 75 /\ VoltageCritical >= 75
    /\ HighTempWarning > Ambient + 200 /\ HighTempCritical > Ambient + 200

VARIABLES profile, soc, voltage, power, temperature, health, status

vars == <<profile, soc, voltage, power, temperature, health, status>>

Abs(x) == IF x >= 0 THEN x ELSE -x
Quotient(x, y) == IF x >= 0 THEN x \div y ELSE -((-x) \div y)
Clamp(lo, hi, x) == IF x < lo THEN lo ELSE IF x > hi THEN hi ELSE x

-----------------------------------------------------------------------------
(***************************************************************************)
(* Usage profiles (profiles.py).                                           *)
(***************************************************************************)

\* Which row of the table an hour falls into.
Band(hour) ==
    CASE hour < 6 -> 1 [] hour \in 6..8 -> 2 [] hour \in 9..15 -> 3
      [] hour \in 16..18 -> 4 [] hour \in 19..22 -> 5 [] OTHER -> 6

HourlyPower ==
    [RESIDENTIAL |-> <<-15, -35, -15, -55, -55, -25>>,
     SOLAR       |-> <<-10, -5, 45, 10, -25, -15>>,
     COMMERCIAL  |-> <<-5, -20, -50, -50, -20, -5>>]

Profiles == DOMAIN HourlyPower \cup {"FAULTY"}

\* Mutant: a faulty battery asks like a solar one.
BaseFractionSolar(p, hour) ==
    HourlyPower[IF p = "FAULTY" THEN "SOLAR" ELSE p][Band(hour)]

\* A faulty battery asks like a residential one.
BaseFraction(p, hour) ==
    HourlyPower[IF p = "FAULTY" THEN "RESIDENTIAL" ELSE p][Band(hour)]

-----------------------------------------------------------------------------
(***************************************************************************)
(* The physics (battery.py).                                               *)
(***************************************************************************)

\* _apply_power_limits: rated power, and nothing into a full battery, nothing
\* out of an empty one.
Limited(requested) ==
    LET clamped == Clamp(-100, 100, requested)
    IN  IF (soc >= 100 /\ clamped > 0) \/ (soc <= 0 /\ clamped < 0) THEN 0 ELSE clamped

Share(p, full) == (Abs(p) * full) \div 100

\* Mutant: no clamp.
ChargeUnclamped(p) == IF p >= 0 THEN soc + Share(p, PointsPerTick)
                                ELSE soc - Share(p, PointsPerTick)

\* _update_soc
Charge(p) ==
    Clamp(0, 100, IF p >= 0 THEN soc + Share(p, PointsPerTick)
                            ELSE soc - Share(p, PointsPerTick))

\* Mutant: the expected voltage of an empty battery is that of a full one.
VoltageAtFlat(charge, noise) ==
    (ExpectedVoltageMilli(Nominal, 100) * (1000 + noise)) \div 1000000

\* _expected_voltage with its noise.
VoltageAt(charge, noise) ==
    (ExpectedVoltageMilli(Nominal, charge) * (1000 + noise)) \div 1000000

\* _current_from_power, in ampere
Current == IF voltage <= 0 THEN 0 ELSE Quotient(power * MaxPower, 10 * voltage)

\* Mutant: each tick adds the whole rise.
WarmedFully(p, noise) == temperature + Share(p, 150) + noise

\* Mutant: a hundredth of the way, so that the noise adds up.
WarmedSluggish(p, noise) ==
    temperature + Quotient(Ambient + Share(p, 150) - temperature, 100) + noise

\* _update_temperature: a tenth of the way to where the load takes it, 15 degrees
\* above ambient at full load, and the noise on top: it can add up to ten times
\* one tick's.
Warmed(p, noise) ==
    temperature + Quotient(Ambient + Share(p, 150) - temperature, 10) + noise

\* _update_health
Worn(p) == Clamp(0, HealthFull, health - Share(p, WearPerTick))

\* _derive_status
StatusOf(p) ==
    IF Abs(p) < IdlePercent THEN "IDLE" ELSE IF p > 0 THEN "CHARGING" ELSE "DISCHARGING"

\* A battery as build_fleet makes it.
Init ==
    /\ profile \in Profiles
    /\ soc = 50
    /\ voltage = VoltageAt(50, 0)
    /\ power = 0
    /\ temperature = Ambient
    /\ health = HealthFull
    /\ status = "IDLE"

\* Battery.tick with what the profile asks for: _run_battery, one iteration.
Tick ==
    /\ \E hour \in Hours, variation \in Variations :
        power' = Limited(BaseFraction(profile, hour) + variation)
    /\ soc' = Charge(power')
    /\ \E noise \in VoltageNoises : voltage' = VoltageAt(soc', noise)
    /\ \E noise \in TemperatureNoises : temperature' = Warmed(power', noise)
    /\ health' = Worn(power')
    /\ status' = StatusOf(power')
    /\ UNCHANGED profile

\* The simulator starts again: its batteries remember nothing.
Restart ==
    /\ soc' = 50
    /\ voltage' = VoltageAt(50, 0)
    /\ power' = 0
    /\ temperature' = Ambient
    /\ health' = HealthFull
    /\ status' = "IDLE"
    /\ UNCHANGED profile

Next == Tick \/ Restart

Spec == Init /\ [][Next]_vars

-----------------------------------------------------------------------------
TypeOK ==
    /\ profile \in Profiles
    /\ soc \in 0..100
    /\ voltage \in Int
    /\ power \in -100..100
    /\ temperature \in Int
    /\ health \in 0..HealthFull
    /\ status \in {"CHARGING", "DISCHARGING", "IDLE"}

\* However long it runs, whatever it draws: no battery of the simulator shows a
\* voltage anomaly or a high temperature, a faulty one neither (its faults are
\* not injected yet, profiles.py).  Such an alert is the backend's finding, not
\* the simulation's noise.
NoPhysicalAlarm ==
    /\ VoltageAnomaly(voltage, soc, Nominal) = "CLEAR"
    /\ HighTemperature(temperature) = "CLEAR"

\* The backend's schema accepts every event, so that no worker dies of a 422
\* (schemas/telemetry.py: voltage, current, power, temperature and health).
SchemaAccepts ==
    /\ 0 <= voltage /\ voltage <= 10000
    /\ Abs(Current) <= 10000
    /\ Abs(power * MaxPower) <= 100000000
    /\ temperature \in -400..1000
    /\ soc \in 0..100 /\ health \in 0..HealthFull

\* Only a solar battery ever recharges: any other that has become critical
\* stays so, with its LOW_SOC alert, until the simulator is restarted.  And no
\* battery's charge moves against the status it reports.
ChargeFollowsProfile ==
    [][Restart \/ /\ profile # "SOLAR" => soc' <= soc
                  /\ soc' > soc => status' # "DISCHARGING"
                  /\ soc' < soc => status' # "CHARGING" /\ power' < 0]_vars
=============================================================================
