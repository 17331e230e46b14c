---------------------------- MODULE MCPrediction ----------------------------
(***************************************************************************)
(* A small instance of Prediction: windows of one and two time units, a    *)
(* lookback of three.  The first battery draws exactly the least power that *)
(* the baseline answers for, or less, and may have been charged before it  *)
(* goes critical.                                                          *)
(***************************************************************************)
EXTENDS Prediction

Says(times, soc, power) ==
    {[timestamp |-> t, soc |-> soc, power |-> power, status |-> "DISCHARGING"] : t \in times}

TwoBatteries == {1, 2}
TwoReports ==
    <<Says(0..4, 50, -2) \cup Says({3}, 60, -1) \cup Says(0..4, 20, -3),
      Says({0, 2, 3}, 60, -4) \cup Says({3, 4}, 20, -5)>>
BaselineAndForest == <<"baseline", "random_forest">>
TwoScores == {<<1, 1>>, <<1, 2>>}
=============================================================================
