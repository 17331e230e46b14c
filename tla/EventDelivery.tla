---------------------------- MODULE EventDelivery ----------------------------
(***************************************************************************)
(* What the simulator's delivery promises, whatever batches, queues,       *)
(* workers and retries do it: an event is confirmed only when the backend  *)
(* has stored it, it is settled once, as sent or as dropped, and a run is  *)
(* called good only when every event is settled.                           *)
(***************************************************************************)

CONSTANT Events

VARIABLES produced, stored, sent, dropped, outcome

promised == <<produced, stored, sent, dropped, outcome>>

Init == produced = {} /\ stored = {} /\ sent = {} /\ dropped = {} /\ outcome = "none"

Make ==
    /\ outcome # "ok"
    /\ \E e \in Events \ produced : produced' = produced \cup {e}
    /\ UNCHANGED <<stored, sent, dropped, outcome>>

Unsettled == produced \ (sent \cup dropped)

\* The backend stores events, perhaps again and perhaps unknown to the sender.
StoreSome ==
    /\ \E S \in SUBSET produced : stored' = stored \cup S
    /\ UNCHANGED <<produced, sent, dropped, outcome>>

\* An attempt at a batch settles all of it, or nothing.
Settle ==
    /\ \E S \in SUBSET Unsettled :
        /\ stored' \in {stored, stored \cup S}
        /\ \/ S \subseteq stored' /\ sent' = sent \cup S /\ UNCHANGED dropped
           \/ dropped' = dropped \cup S /\ UNCHANGED sent
    /\ UNCHANGED <<produced, outcome>>

End ==
    /\ outcome = "none"
    /\ \/ outcome' = "ok" /\ Unsettled = {}
       \/ outcome' = "error"
    /\ UNCHANGED <<produced, stored, sent, dropped>>

Next == Make \/ StoreSome \/ Settle \/ End

Spec == Init /\ [][Next]_promised
=============================================================================
