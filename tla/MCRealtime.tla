----------------------------- MODULE MCRealtime -----------------------------
(***************************************************************************)
(* Realtime on a small instance: see the cfg for its bounds.               *)
(***************************************************************************)
EXTENDS Realtime
=============================================================================
