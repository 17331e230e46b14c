----------------------------- MODULE MCIngestion -----------------------------
(***************************************************************************)
(* Small instances of Ingestion.  A battery is silent after one tick, and  *)
(* the rapid-discharge window is one; the other thresholds are those of    *)
(* app/core/config.py.  385 V is a normal voltage at every state of charge *)
(* used here.                                                              *)
(***************************************************************************)
EXTENDS IngestionInv, TLC

R(id, b, ts, soc, temp, status) ==
    [event_id |-> id, battery_id |-> b, timestamp |-> ts, state_of_charge |-> soc,
     voltage |-> 385, temperature_c |-> temp, status |-> status]

OneBattery == {1}
Nominal1 == [b \in OneBattery |-> 400]

\* One battery: low at -1, full at 0, low at 2 (which is a rapid discharge too).
\* Nobody registered the battery of Stray.
Older == R(19, 1, -1, 5, 25, "DISCHARGING")
Full0 == R(10, 1, 0, 50, 25, "IDLE")
Low2  == R(12, 1, 2, 15, 25, "DISCHARGING")
Stray == R(20, 2, 0, 50, 25, "IDLE")
OneReadings == {Older, Full0, Low2, Stray}
OnePayloads ==
    {<<Older>>, <<Full0>>, <<Low2>>, <<Full0, Low2, Low2>>, <<Full0, Stray>>}

\* Readings from before the clock starts, as late answers to an outage are.
Full9 == R(14, 1, -2, 50, 25, "IDLE")
Low0  == R(15, 1, -1, 15, 25, "DISCHARGING")
LateReadings == {Full9, Low0}
LatePayloads == {<<Full9>>, <<Low0>>}

\* Two readings that each break two rules, and are so old that each leaves its
\* battery silent; the second comes in a batch only, twice.
Bad8 == R(41, 1, -3, 15, 60, "DISCHARGING")
Bad9 == R(42, 1, -2, 15, 60, "DISCHARGING")
BadReadings == {Bad8, Bad9}
BadPayloads == {<<Bad8>>, <<Bad9, Bad9>>}

\* One body, and in it two readings that were given the same event_id.
First == R(61, 1, 0, 50, 25, "IDLE")
Again == R(61, 1, 1, 15, 25, "DISCHARGING")
RepeatReadings == {First, Again}
RepeatPayloads == {<<First, Again>>}

RequestSymmetry == Permutations(Requests)
=============================================================================
