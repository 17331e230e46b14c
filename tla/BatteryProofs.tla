--------------------------- MODULE BatteryProofs ----------------------------
(***************************************************************************)
(* Theorems about Battery, for every nominal voltage, rating, tick length  *)
(* and ambient temperature that the assumptions allow.                     *)
(***************************************************************************)
EXTENDS Battery, TLAPS

USE DEF Abs, Clamp

-----------------------------------------------------------------------------
(***************************************************************************)
(* The strengthening: the temperature stays within ten times its noise of  *)
(* the range of its targets, and the voltage is that of the charge, but    *)
(* for the noise.                                                          *)
(***************************************************************************)

TemperatureBounded == temperature \in (Ambient - 50)..(Ambient + 200)

VoltageFollowsCharge == \E noise \in -10..10 : voltage = VoltageAt(soc, noise)

IInv == TypeOK /\ TemperatureBounded /\ VoltageFollowsCharge /\ status = StatusOf(power)

\* A share of a load is between nothing and the whole.
LEMMA ShareBounded ==
    ASSUME NEW p \in -100..100, NEW full \in Nat
    PROVE  Share(p, full) \in 0..full
<1>1. Abs(p) \in 0..100
    OBVIOUS
<1>2. \A q \in 0..100 : 0 <= q * full /\ q * full <= 100 * full
    OBVIOUS
<1>3. Abs(p) * full \in Int /\ 0 <= Abs(p) * full /\ Abs(p) * full <= 100 * full
    BY <1>1, <1>2
<1> QED
    BY <1>3 DEF Share

\* What a tick does to the charge and the health.
LEMMA ChargeBounded ==
    ASSUME TypeOK, NEW p \in -100..100
    PROVE  /\ Charge(p) \in 0..100
           /\ p <= 0 => Charge(p) <= soc
           /\ Charge(p) > soc => p > 0
           /\ Charge(p) < soc => p < 0
<1> DEFINE share == Share(p, PointsPerTick)
<1>1. share \in Nat
  <2>1. PointsPerTick \in Nat
    BY BatteryAssumption
  <2>2. share \in 0..PointsPerTick
    BY <2>1, ShareBounded
  <2> HIDE DEF share
  <2> QED
    BY <2>1, <2>2
<1>2. p = 0 => share = 0
    BY BatteryAssumption DEF Share
<1>3. Charge(p) = Clamp(0, 100, IF p >= 0 THEN soc + share ELSE soc - share)
    BY DEF Charge
<1> HIDE DEF share
<1> QED
    BY <1>1, <1>2, <1>3 DEF TypeOK

LEMMA WornBounded ==
    ASSUME TypeOK, NEW p \in -100..100
    PROVE  Worn(p) \in 0..HealthFull
<1> DEFINE share == Share(p, WearPerTick)
<1>1. share \in Nat
  <2>1. WearPerTick \in Nat
    BY BatteryAssumption
  <2>2. share \in 0..WearPerTick
    BY <2>1, ShareBounded
  <2> HIDE DEF share
  <2> QED
    BY <2>1, <2>2
<1>2. Worn(p) = Clamp(0, HealthFull, health - share)
    BY DEF Worn
<1> HIDE DEF share
<1> QED
    BY <1>1, <1>2, BatteryAssumption DEF TypeOK

\* The table asks for at most 55 percent, and the variation adds 5.
LEMMA RequestBounded ==
    ASSUME NEW p \in Profiles, NEW hour \in Hours, NEW variation \in Variations
    PROVE  /\ BaseFraction(p, hour) + variation \in -60..50
           /\ p # "SOLAR" => BaseFraction(p, hour) + variation <= 0
<1>1. Band(hour) \in 1..6
    BY BatteryAssumption DEF Band
<1>2. DOMAIN HourlyPower = {"RESIDENTIAL", "SOLAR", "COMMERCIAL"}
    BY DEF HourlyPower
<1>3. variation \in -5..5
    BY BatteryAssumption
<1>4. /\ BaseFraction(p, hour) \in -55..45
      /\ p # "SOLAR" => BaseFraction(p, hour) <= -5
    BY <1>1, <1>2 DEF BaseFraction, HourlyPower, Profiles
<1> QED
    BY <1>3, <1>4

\* What a battery draws is within its rating, never from an empty one, and of
\* the sign that was asked for.
LEMMA LimitedBounded ==
    ASSUME TypeOK, NEW requested \in -60..50
    PROVE  /\ Limited(requested) \in -100..100
           /\ requested <= 0 => Limited(requested) <= 0
BY DEF TypeOK, Limited

\* One step of the temperature.
LEMMA WarmedBounded ==
    ASSUME TypeOK, TemperatureBounded, NEW p \in -100..100, NEW noise \in TemperatureNoises
    PROVE  Warmed(p, noise) \in (Ambient - 50)..(Ambient + 200)
<1>1. noise \in -5..5 /\ Ambient \in Int
    BY BatteryAssumption
<1>2. Share(p, 150) \in 0..150
    BY ShareBounded
<1> DEFINE target == Ambient + Share(p, 150)
<1>3. target \in Ambient..(Ambient + 150)
    BY <1>1, <1>2
<1> HIDE DEF target
<1>4. temperature \in Int
    BY DEF TypeOK
<1>5. temperature + Quotient(target - temperature, 10) + noise \in (Ambient - 50)..(Ambient + 200)
  <2>1. CASE target >= temperature
    BY <1>1, <1>3, <1>4, <2>1 DEF TemperatureBounded, Quotient
  <2>2. CASE target < temperature
    <3>1. PICK excess \in Nat : excess = temperature - target /\ excess > 0
        BY <1>1, <1>3, <1>4, <2>2
    <3>2. Quotient(target - temperature, 10) = -(excess \div 10)
        BY <1>1, <1>3, <1>4, <3>1 DEF Quotient
    <3>3. temperature = target + excess
        BY <1>1, <1>3, <1>4, <3>1
    <3> QED
        BY <1>1, <1>3, <1>4, <3>1, <3>2, <3>3 DEF TemperatureBounded
  <2> QED
    BY <1>1, <1>3, <1>4, <2>1, <2>2
<1>6. Ambient + Share(p, 150) - temperature = target - temperature
    BY <1>1, <1>2, <1>4 DEF target
<1>7. Warmed(p, noise) = temperature + Quotient(target - temperature, 10) + noise
    BY <1>6 DEF Warmed
<1> QED
    BY <1>5, <1>7

\* Noise is at most a hundredth of what it is put on.
LEMMA NoiseBounded ==
    ASSUME NEW x \in Nat, NEW noise \in -10..10
    PROVE  /\ x * (1000 + noise) \in Int
           /\ 990 * x <= x * (1000 + noise) /\ x * (1000 + noise) <= 1010 * x
<1>1. x * (1000 + noise) = 1000 * x + x * noise
    OBVIOUS
<1>2. x * noise \in Int /\ x * noise <= 10 * x /\ -10 * x <= x * noise
    OBVIOUS
<1> QED
    BY <1>1, <1>2

\* A reading at most one percent from the expected voltage, and rounded to a
\* tenth of a volt, is far from the thresholds of the rule.
LEMMA VoltageNearExpected ==
    ASSUME NEW charge \in 0..100, NEW noise \in -10..10
    PROVE  /\ VoltageAt(charge, noise) \in Nat \ {0}
           /\ VoltageAnomaly(VoltageAt(charge, noise), charge, Nominal) = "CLEAR"
<1> DEFINE expected == ExpectedVoltageMilli(Nominal, charge)
           volts == VoltageAt(charge, noise)
<1>1. expected \in Nat /\ expected >= 18000
  <2>1. Nominal \in Nat /\ Nominal >= 20 /\ 900 + 2 * charge >= 900 /\ 900 + 2 * charge \in Nat
    BY BatteryAssumption
  <2>2. \A x, y \in Nat : x >= 20 /\ y >= 900 => x * y \in Nat /\ x * y >= 18000
    <3> SUFFICES ASSUME NEW x \in Nat, NEW y \in Nat, x >= 20, y >= 900
                 PROVE  x * y \in Nat /\ x * y >= 18000
        OBVIOUS
    <3>1. x * y >= 20 * y
        OBVIOUS
    <3> QED
        BY <3>1
  <2> QED
    BY <2>1, <2>2 DEF ExpectedVoltageMilli
<1>2. /\ expected * (1000 + noise) \in Int
      /\ 990 * expected <= expected * (1000 + noise)
      /\ expected * (1000 + noise) <= 1010 * expected
    BY <1>1, NoiseBounded
<1>3. volts = (expected * (1000 + noise)) \div 1000000
    BY DEF VoltageAt
<1> HIDE DEF expected, volts
<1>4. PICK product \in Int : /\ product = expected * (1000 + noise)
                             /\ 990 * expected <= product /\ product <= 1010 * expected
    BY <1>2
<1>5. /\ volts \in Int /\ 1000000 * volts <= product /\ product < 1000000 * volts + 1000000
      /\ volts > 0
    BY <1>1, <1>3, <1>4
<1>6. /\ 1000 * Distance(1000 * volts, expected) \in Int
      /\ 1000 * Distance(1000 * volts, expected) < 75 * expected
    BY <1>1, <1>4, <1>5 DEF Distance
<1>7. /\ 75 * expected <= VoltageWarning * expected
      /\ 75 * expected <= VoltageCritical * expected
      /\ VoltageWarning * expected \in Int /\ VoltageCritical * expected \in Int
  <2>1. VoltageWarning \in Int /\ VoltageCritical \in Int /\ VoltageWarning >= 75 /\ VoltageCritical >= 75
    BY BatteryAssumption, ThresholdsAssumption
  <2>2. \A w \in Int : w >= 75 => 75 * expected <= w * expected /\ w * expected \in Int
    BY <1>1
  <2> QED
    BY <2>1, <2>2
<1>8. VoltageAnomaly(volts, charge, Nominal) = "CLEAR"
    BY <1>1, <1>6, <1>7 DEF VoltageAnomaly, Graded, expected
<1> QED
    BY <1>5, <1>8 DEF volts

-----------------------------------------------------------------------------
LEMMA InitIInv == Init => IInv
<1> SUFFICES ASSUME Init PROVE IInv
    OBVIOUS
<1>1. VoltageAt(50, 0) \in Nat \ {0}
    BY VoltageNearExpected
<1>2. TypeOK
    BY <1>1, BatteryAssumption DEF Init, TypeOK
<1>3. TemperatureBounded
    BY BatteryAssumption DEF Init, TemperatureBounded
<1>4. VoltageFollowsCharge
    BY DEF Init, VoltageFollowsCharge
<1>5. status = StatusOf(power)
    BY BatteryAssumption DEF Init, StatusOf
<1> QED
    BY <1>2, <1>3, <1>4, <1>5 DEF IInv

LEMMA NextIInv == IInv /\ [Next]_vars => IInv'
<1> SUFFICES ASSUME IInv, [Next]_vars PROVE IInv'
    OBVIOUS
<1>1. CASE Tick
  <2>1. PICK hour \in Hours, variation \in Variations :
            power' = Limited(BaseFraction(profile, hour) + variation)
    BY <1>1 DEF Tick
  <2>2. power' \in -100..100
    BY <2>1, RequestBounded, LimitedBounded DEF IInv, TypeOK
  <2>3. PICK vnoise \in VoltageNoises : voltage' = VoltageAt(soc', vnoise)
    BY <1>1 DEF Tick
  <2>4. PICK tnoise \in TemperatureNoises : temperature' = Warmed(power', tnoise)
    BY <1>1 DEF Tick
  <2>5. soc' \in 0..100
    BY <1>1, <2>2, ChargeBounded DEF Tick, IInv
  <2>6. vnoise \in -10..10
    BY BatteryAssumption
  <2>7. voltage' \in Int
    BY <2>3, <2>5, <2>6, VoltageNearExpected
  <2>8. health' \in 0..HealthFull
    BY <1>1, <2>2, WornBounded DEF Tick, IInv
  <2>9. temperature' \in (Ambient - 50)..(Ambient + 200)
    BY <2>2, <2>4, WarmedBounded DEF IInv
  <2>10. status' = StatusOf(power')
    BY <1>1 DEF Tick
  <2>11. TypeOK'
    <3>1. status' \in {"CHARGING", "DISCHARGING", "IDLE"}
        BY <2>10 DEF StatusOf
    <3>2. profile' \in Profiles
        BY <1>1 DEF Tick, IInv, TypeOK
    <3>3. temperature' \in Int
        BY <2>9, BatteryAssumption
    <3> QED
        BY <2>2, <2>5, <2>7, <2>8, <3>1, <3>2, <3>3 DEF TypeOK
  <2>12. (status = StatusOf(power))'
    BY <2>10 DEF StatusOf
  <2>13. VoltageFollowsCharge'
    BY <2>3, <2>6 DEF VoltageFollowsCharge, VoltageAt, ExpectedVoltageMilli
  <2> QED
    BY <2>9, <2>11, <2>12, <2>13 DEF IInv, TemperatureBounded
<1>2. CASE Restart
  <2>1. VoltageAt(50, 0) \in Nat \ {0}
    BY VoltageNearExpected
  <2>2. TypeOK'
    BY <1>2, <2>1, BatteryAssumption DEF Restart, IInv, TypeOK
  <2>3. TemperatureBounded'
    BY <1>2, BatteryAssumption DEF Restart, TemperatureBounded
  <2>4. VoltageFollowsCharge'
    BY <1>2 DEF Restart, VoltageFollowsCharge, VoltageAt, ExpectedVoltageMilli
  <2>5. (status = StatusOf(power))'
    BY <1>2, BatteryAssumption DEF Restart, StatusOf
  <2> QED
    BY <2>2, <2>3, <2>4, <2>5 DEF IInv
<1>3. CASE UNCHANGED vars
    BY <1>3 DEF vars, IInv, TypeOK, TemperatureBounded, VoltageFollowsCharge, VoltageAt,
                ExpectedVoltageMilli, StatusOf
<1> QED
    BY <1>1, <1>2, <1>3 DEF Next

LEMMA Invariance == Spec => []IInv
<1>1. Init => IInv
    BY InitIInv
<1>2. IInv /\ [Next]_vars => IInv'
    BY NextIInv
<1> QED
    BY <1>1, <1>2, PTL DEF Spec

-----------------------------------------------------------------------------
\* Every value stays what the telemetry schema calls it: charge and health
\* within their percentages, the power within the rating.
THEOREM BatteryTypeCorrect == Spec => []TypeOK
<1>1. IInv => TypeOK
    BY DEF IInv
<1> QED
    BY <1>1, Invariance, PTL

\* No battery of the simulator, of whatever profile and however long it runs,
\* raises VOLTAGE_ANOMALY or HIGH_TEMPERATURE.
THEOREM SimulationRaisesNoPhysicalAlarm == Spec => []NoPhysicalAlarm
<1>1. IInv => NoPhysicalAlarm
  <2> SUFFICES ASSUME IInv PROVE NoPhysicalAlarm
    OBVIOUS
  <2>1. VoltageAnomaly(voltage, soc, Nominal) = "CLEAR"
    BY VoltageNearExpected DEF IInv, TypeOK, VoltageFollowsCharge
  <2>2. HighTemperature(temperature) = "CLEAR"
    BY BatteryAssumption, ThresholdsAssumption
       DEF IInv, TypeOK, TemperatureBounded, HighTemperature, Graded
  <2> QED
    BY <2>1, <2>2 DEF NoPhysicalAlarm
<1> QED
    BY <1>1, Invariance, PTL

\* The charge moves as the profile and the reported status say: only a solar
\* battery recharges, and none charges while it says it discharges.
THEOREM ChargeMovesAsReported == Spec => ChargeFollowsProfile
<1> DEFINE Follows == \/ Restart
                      \/ /\ profile # "SOLAR" => soc' <= soc
                         /\ soc' > soc => status' # "DISCHARGING"
                         /\ soc' < soc => status' # "CHARGING" /\ power' < 0
<1>1. IInv /\ [Next]_vars => [Follows]_vars
  <2> SUFFICES ASSUME IInv, Tick PROVE Follows
    BY DEF Next
  <2>1. PICK hour \in Hours, variation \in Variations :
            power' = Limited(BaseFraction(profile, hour) + variation)
    BY DEF Tick
  <2>2. power' \in -100..100 /\ (profile # "SOLAR" => power' <= 0)
    BY <2>1, RequestBounded, LimitedBounded DEF IInv, TypeOK
  <2>3. soc' = Charge(power')
    BY DEF Tick
  <2>6. /\ power' <= 0 => soc' <= soc
        /\ soc' > soc => power' > 0
        /\ soc' < soc => power' < 0
    BY <2>2, <2>3, ChargeBounded DEF IInv
  <2>7. status' = StatusOf(power')
    BY DEF Tick
  <2>8. /\ status' = "DISCHARGING" => power' <= 0
        /\ status' = "CHARGING" => power' > 0
    <3>1. \A p \in -100..100 : /\ StatusOf(p) = "DISCHARGING" => p <= 0
                               /\ StatusOf(p) = "CHARGING" => p > 0
        BY BatteryAssumption DEF StatusOf
    <3> QED
        BY <2>2, <2>7, <3>1
  <2> QED
    BY <2>2, <2>6, <2>8
<1> QED
    BY <1>1, Invariance, PTL DEF Spec, ChargeFollowsProfile
-----------------------------------------------------------------------------
(***************************************************************************)
(* The ranges of the backend's schema.  What a battery reports is within   *)
(* them if its hardware is: at most 900 V and 1 MW, no more than 8 kW per  *)
(* volt, and a place between -35 and 80 degrees.  FleetConfig's battery    *)
(* has 48 V and 5 kW, at 25 degrees.                                       *)
(***************************************************************************)

HardwareFits ==
    /\ Nominal <= 9000
    /\ MaxPower <= 1000000 /\ MaxPower <= 800 * Nominal
    /\ Ambient \in -350..800

\* The voltage stays between four fifths of the nominal one and the schema's end.
LEMMA VoltageInRange ==
    ASSUME HardwareFits, NEW charge \in 0..100, NEW noise \in -10..10
    PROVE  /\ VoltageAt(charge, noise) \in Int
           /\ 0 < VoltageAt(charge, noise) /\ VoltageAt(charge, noise) <= 10000
           /\ 4 * Nominal <= 5 * VoltageAt(charge, noise)
<1> DEFINE expected == ExpectedVoltageMilli(Nominal, charge)
           volts == VoltageAt(charge, noise)
<1>1. Nominal \in Nat /\ Nominal >= 20 /\ Nominal <= 9000
    BY BatteryAssumption DEF HardwareFits
<1>2. expected \in Nat /\ 900 * Nominal <= expected /\ expected <= 1100 * Nominal
  <2>1. \A x \in Nat : \A y \in 900..1100 : x * y \in Nat /\ 900 * x <= x * y /\ x * y <= 1100 * x
    <3> TAKE x \in Nat
    <3> TAKE y \in 900..1100
    <3>1. x * y = 900 * x + x * (y - 900) /\ x * y = 1100 * x - x * (1100 - y)
        OBVIOUS
    <3>2. x * (y - 900) \in Nat /\ x * (1100 - y) \in Nat
        OBVIOUS
    <3> QED
        BY <3>1, <3>2
  <2>2. 900 + 2 * charge \in 900..1100
    OBVIOUS
  <2> QED
    BY <1>1, <2>1, <2>2 DEF ExpectedVoltageMilli
<1>3. volts = (expected * (1000 + noise)) \div 1000000
    BY DEF VoltageAt
<1> HIDE DEF expected, volts
<1>4. PICK product \in Int : /\ product = expected * (1000 + noise)
                             /\ 990 * expected <= product /\ product <= 1010 * expected
    BY <1>2, NoiseBounded
<1>5. volts \in Int /\ 1000000 * volts <= product /\ product < 1000000 * volts + 1000000
    BY <1>3, <1>4
<1>6. 0 < volts /\ volts <= 10000 /\ 4 * Nominal <= 5 * volts
    BY <1>1, <1>2, <1>4, <1>5
<1> QED
    BY <1>5, <1>6 DEF volts

\* A quotient is within the multiples that its dividend is within.
LEMMA QuotientBounded ==
    ASSUME NEW x \in Int, NEW d \in Int, d > 0, -(10000 * d) <= x, x <= 10000 * d
    PROVE  Abs(Quotient(x, d)) <= 10000
<1>1. ASSUME NEW y \in Nat, y <= 10000 * d
      PROVE  y \div d \in Int /\ 0 <= y \div d /\ y \div d <= 10000
  <2>1. y \div d \in Int /\ d * (y \div d) <= y /\ y < d * (y \div d) + d
    BY <1>1
  <2>2. \A q \in Int : d * q <= y /\ y < d * q + d => 0 <= q /\ q <= 10000
    <3> SUFFICES ASSUME NEW q \in Int, d * q <= y, y < d * q + d
                 PROVE  0 <= q /\ q <= 10000
        OBVIOUS
    <3>1. d * q < d * 10001 /\ d * (-1) < d * q
        BY <1>1
    <3>2. q < 10001 /\ -1 < q
        BY <3>1
    <3> QED
        BY <3>2
  <2> QED
    BY <2>1, <2>2
<1>2. CASE x >= 0
    BY <1>1, <1>2 DEF Quotient
<1>3. CASE x < 0
  <2>1. -x \in Nat /\ -x <= 10000 * d
    BY <1>3
  <2>2. (-x) \div d \in Int /\ 0 <= (-x) \div d /\ (-x) \div d <= 10000
    BY <1>1, <2>1
  <2>3. Quotient(x, d) = -((-x) \div d)
    BY <1>3 DEF Quotient
  <2> QED
    BY <2>2, <2>3
<1> QED
    BY <1>2, <1>3

\* The power, and the current it makes at such a voltage.
LEMMA PowerInRange ==
    ASSUME HardwareFits, NEW p \in -100..100,
           NEW volts \in Int, 0 < volts, 4 * Nominal <= 5 * volts
    PROVE  /\ Abs(p * MaxPower) <= 100000000
           /\ Abs(Quotient(p * MaxPower, 10 * volts)) <= 10000
<1>1. MaxPower \in Nat /\ Nominal \in Nat
    BY BatteryAssumption
<1>2. PICK product \in Int : /\ product = p * MaxPower
                             /\ -(100 * MaxPower) <= product /\ product <= 100 * MaxPower
  <2>1. \A x \in Nat : p * x \in Int /\ -(100 * x) <= p * x /\ p * x <= 100 * x
    OBVIOUS
  <2> QED
    BY <1>1, <2>1
<1>3. 100 * MaxPower <= 100000 * volts /\ 100 * MaxPower <= 100000000
    BY <1>1 DEF HardwareFits
<1>4. PICK d \in Int : d = 10 * volts /\ d > 0 /\ -(10000 * d) <= product /\ product <= 10000 * d
    BY <1>1, <1>2, <1>3
<1>5. Abs(Quotient(product, d)) <= 10000
    BY <1>4, QuotientBounded
<1>6. p * MaxPower = product /\ Quotient(p * MaxPower, 10 * volts) = Quotient(product, d)
  <2>1. p * MaxPower = product /\ 10 * volts = d
    BY <1>2, <1>4
  <2> QED
    BY ONLY <2>1
<1>7. Abs(product) <= 100000000
    BY <1>1, <1>2, <1>3
<1> QED
    BY <1>5, <1>6, <1>7

\* No event of a battery whose hardware fits is answered with a 422, which would
\* end a worker of the simulator's client, however long the battery runs.
THEOREM SchemaAcceptsHolds == ASSUME HardwareFits PROVE Spec => []SchemaAccepts
<1>1. IInv => SchemaAccepts
  <2> SUFFICES ASSUME IInv PROVE SchemaAccepts
    OBVIOUS
  <2>1. PICK noise \in -10..10 : voltage = VoltageAt(soc, noise)
    BY DEF IInv, VoltageFollowsCharge
  <2>2. voltage \in Int /\ 0 < voltage /\ voltage <= 10000 /\ 4 * Nominal <= 5 * voltage
    BY <2>1, VoltageInRange DEF IInv, TypeOK
  <2>3. /\ Abs(power * MaxPower) <= 100000000
        /\ Abs(Quotient(power * MaxPower, 10 * voltage)) <= 10000
    BY <2>2, PowerInRange DEF IInv, TypeOK
  <2>4. Abs(Current) <= 10000
    BY <2>2, <2>3 DEF Current
  <2>5. temperature \in -400..1000
    BY BatteryAssumption DEF HardwareFits, IInv, TemperatureBounded
  <2> QED
    BY <2>2, <2>3, <2>4, <2>5 DEF IInv, TypeOK, SchemaAccepts
<1> QED
    BY <1>1, Invariance, PTL
=============================================================================
