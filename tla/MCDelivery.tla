----------------------------- MODULE MCDelivery -----------------------------
(***************************************************************************)
(* Small instances of Delivery.  Two batteries and one or two workers are  *)
(* enough for a full queue with a producer waiting, a worker that retries  *)
(* beside one that dies, and a partial batch at the end of the run.        *)
(***************************************************************************)
EXTENDS Delivery, TLC

DeliverySymmetry == Permutations(Batteries) \cup Permutations(Workers)
=============================================================================
