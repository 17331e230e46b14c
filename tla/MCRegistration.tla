--------------------------- MODULE MCRegistration ---------------------------
(***************************************************************************)
(* A fleet of two or three batteries, with and without faulty ones:        *)
(* growing it is safe without, and moves a profile with.                   *)
(***************************************************************************)
EXTENDS Registration, TLC

MCConfigs == [device_count : {2, 3}, fault_percent : {0, 50}]
=============================================================================
