----------------------------- MODULE MCBattery ------------------------------
(***************************************************************************)
(* A 5 kW, 48 V battery that reports rarely, so that it is empty or full   *)
(* after a few ticks: one hour of each row of the profile table, and the   *)
(* variation and the noise at their extremes.                              *)
(***************************************************************************)
EXTENDS Battery

MCHours == {3, 7, 12, 17, 20, 23}
MCVariations == {-5, 5}
MCVoltageNoises == {-10, 10}
MCTemperatureNoises == {-5, 5}
=============================================================================
