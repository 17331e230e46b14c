------------------------------ MODULE Realtime ------------------------------
(***************************************************************************)
(* How a dashboard follows the fleet: a REST snapshot first, then the      *)
(* fleet_update events of GET /api/v1/stream, and a fresh snapshot after   *)
(* each reconnection.  A publisher reads a summary about once a second     *)
(* while somebody is connected and puts it into one bounded queue per      *)
(* client.                                                                 *)
(*                                                                         *)
(* A summary is several SELECTs, each of which sees what is committed      *)
(* then.  The module keeps a figure of each of the first two; the third    *)
(* (the alerts) is to the second what the second is to the first.          *)
(***************************************************************************)
EXTENDS Integers, Sequences, FiniteSets

CONSTANTS Publisher,    \* run_fleet_update_publisher, as a reader of summaries
          None,         \* no summary, no connection
          QueueSize,    \* _CLIENT_QUEUE_MAXSIZE
          MaxChanges,   \* bound: changes of the fleet
          MaxConnections, \* bound: connections opened
          MaxFailures   \* bound: summaries that fail

ASSUME RealtimeAssumption ==
    /\ None \notin Nat
    /\ QueueSize \in Nat \ {0}
    /\ MaxChanges \in Nat
    /\ MaxConnections \in Nat
    /\ MaxFailures \in Nat

\* Each visit opens a connection, and each loss another one.  A connection
\* comes with at most one snapshot: the first of a visit when the page mounts,
\* a later one when it opens.
Connections == 1..MaxConnections

Readers == Connections \cup {Publisher}

VARIABLES
    fleet,        \* what is committed: registered batteries, those online
    reading,      \* per reader: the SELECT it is at, and its figures so far
    subscribers,  \* Broadcaster._subscribers
    queue,        \* per connection: its asyncio.Queue, and what is on the wire
    endpoint,     \* per connection: where _event_stream is
    cut,          \* the connections that are broken or closed by the browser
    page,         \* the hook's state, its refs and its EventSource
    due,          \* the connections opened, and those that must be after a loss
    changes, failures

server == <<subscribers, queue, endpoint>>
bounds == <<changes, failures>>
vars == <<fleet, reading, server, cut, page, due, bounds>>

Idle == [at |-> "idle", total |-> 0, online |-> 0]

\* The answer of get_fleet_summary: what is not online is offline.
SummaryOf(f) == [total |-> f.total, online |-> f.online, offline |-> f.total - f.online]

\* No dashboard is open: the hook has no state.
Unmounted == [mounted |-> FALSE, since |-> 0, connection |-> None,
              hasConnectedBefore |-> FALSE, summary |-> None, loading |-> FALSE,
              error |-> FALSE, connectionState |-> "disconnected"]

Init ==
    /\ fleet = [total |-> 2, online |-> 1]
    /\ reading = [r \in Readers |-> Idle]
    /\ subscribers = {}
    /\ queue = [c \in Connections |-> <<>>]
    /\ endpoint = [c \in Connections |-> "none"]
    /\ cut = {}
    /\ page = Unmounted
    /\ due = 0
    /\ changes = 0 /\ failures = 0

-----------------------------------------------------------------------------
(* The fleet, as the rest of the backend changes it.                       *)

Register == fleet' = [fleet EXCEPT !.total = @ + 1]

Report ==
    /\ fleet.online < fleet.total
    /\ fleet' = [fleet EXCEPT !.online = @ + 1]

GoOffline ==
    /\ fleet.online > 0
    /\ fleet' = [fleet EXCEPT !.online = @ - 1]

FleetChanges ==
    /\ changes < MaxChanges
    /\ Register \/ Report \/ GoOffline
    /\ changes' = changes + 1
    /\ UNCHANGED <<reading, server, cut, page, due, failures>>

-----------------------------------------------------------------------------
(* get_fleet_summary                                                       *)

Requested == [Idle EXCEPT !.at = "total"]

Read(r) ==
    /\ \/ /\ reading[r].at = "total"
          /\ reading' = [reading EXCEPT ![r].at = "state", ![r].total = fleet.total]
       \/ /\ reading[r].at = "state"
          /\ reading' = [reading EXCEPT ![r].at = "done", ![r].online = fleet.online]
    /\ UNCHANGED <<fleet, server, cut, page, due, bounds>>

InDatabase(r) == reading[r].at \in {"total", "state"}

-----------------------------------------------------------------------------
(* run_fleet_update_publisher and Broadcaster                              *)

\* Mutant: the summary is read whether or not anybody listens.
WakeAlways ==
    /\ reading[Publisher].at = "idle"
    /\ reading' = [reading EXCEPT ![Publisher] = Requested]
    /\ UNCHANGED <<fleet, server, cut, page, due, bounds>>

WakePublisher ==
    /\ reading[Publisher].at = "idle"
    /\ subscribers # {}
    /\ reading' = [reading EXCEPT ![Publisher] = Requested]
    /\ UNCHANGED <<fleet, server, cut, page, due, bounds>>

\* Mutant: put_nowait on an unbounded queue.
OfferUnbounded(q, event) == Append(q, event)

\* A full queue gives up its oldest event.
Offer(q, event) == IF Len(q) < QueueSize THEN Append(q, event) ELSE Append(Tail(q), event)

Publish ==
    /\ reading[Publisher].at = "done"
    /\ LET event == SummaryOf(reading[Publisher])
       IN  queue' = [c \in Connections |->
                        IF c \in subscribers THEN Offer(queue[c], event) ELSE queue[c]]
    /\ reading' = [reading EXCEPT ![Publisher] = Idle]
    /\ UNCHANGED <<fleet, subscribers, endpoint, cut, page, due, bounds>>

\* Mutant: without the except clause the task ends with its first failure.
PublisherDies ==
    /\ failures < MaxFailures
    /\ InDatabase(Publisher)
    /\ reading' = [reading EXCEPT ![Publisher] = [Idle EXCEPT !.at = "dead"]]
    /\ failures' = failures + 1
    /\ UNCHANGED <<fleet, server, cut, page, due, changes>>

\* A failed iteration is logged and skipped; the loop sleeps and goes on.
PublisherFails ==
    /\ failures < MaxFailures
    /\ InDatabase(Publisher)
    /\ reading' = [reading EXCEPT ![Publisher] = Idle]
    /\ failures' = failures + 1
    /\ UNCHANGED <<fleet, server, cut, page, due, changes>>

-----------------------------------------------------------------------------
(* GET /api/v1/stream                                                      *)

\* The headers are sent before the generator runs.
Accept(c) ==
    /\ endpoint[c] = "requested"
    /\ endpoint' = [endpoint EXCEPT ![c] = "accepted"]
    /\ UNCHANGED <<fleet, reading, subscribers, queue, cut, page, due, bounds>>

Subscribe(c) ==
    /\ endpoint[c] = "accepted"
    /\ endpoint' = [endpoint EXCEPT ![c] = "streaming"]
    /\ subscribers' = subscribers \cup {c}
    /\ UNCHANGED <<fleet, reading, queue, cut, page, due, bounds>>

\* Mutant: the generator returns without its finally clause.
EndStreamSubscribed(c) ==
    /\ endpoint[c] = "streaming"
    /\ c \in cut
    /\ endpoint' = [endpoint EXCEPT ![c] = "ended"]
    /\ UNCHANGED <<fleet, reading, subscribers, queue, cut, page, due, bounds>>

\* is_disconnected(), or the write of an event or of a keep-alive, shows that
\* the client is gone; the finally clause removes its queue.
EndStream(c) ==
    /\ endpoint[c] = "streaming"
    /\ c \in cut
    /\ endpoint' = [endpoint EXCEPT ![c] = "ended"]
    /\ subscribers' = subscribers \ {c}
    /\ queue' = [queue EXCEPT ![c] = <<>>]
    /\ UNCHANGED <<fleet, reading, cut, page, due, bounds>>

-----------------------------------------------------------------------------
(* useRealtimeFleetSummary and the browser's EventSource                   *)

NextConnection == 1 + Cardinality({c \in Connections : endpoint[c] # "none"})

\* The clean-up of an earlier visit has set its own cancelled flag.
Cancelled(c) == ~page.mounted \/ c < page.since

Mount ==
    /\ ~page.mounted
    /\ due < MaxConnections
    /\ LET c == NextConnection
       IN  /\ page' = [mounted |-> TRUE, since |-> c, connection |-> c,
                       hasConnectedBefore |-> FALSE, summary |-> None, loading |-> TRUE,
                       error |-> FALSE, connectionState |-> "connecting"]
           /\ reading' = [reading EXCEPT ![c] = Requested]
           /\ endpoint' = [endpoint EXCEPT ![c] = "requested"]
    /\ due' = due + 1
    /\ UNCHANGED <<fleet, subscribers, queue, cut, bounds>>

\* onopen: a connection that is not the visit's first fetches a new snapshot.
OnOpen(c) ==
    /\ page.connection = c
    /\ page.connectionState # "live"
    /\ endpoint[c] \in {"accepted", "streaming"}
    /\ page' = [page EXCEPT !.connectionState = "live", !.hasConnectedBefore = TRUE]
    /\ reading' = IF page.hasConnectedBefore
                  THEN [reading EXCEPT ![c] = Requested] ELSE reading
    /\ UNCHANGED <<fleet, server, cut, due, bounds>>

\* The generator writes the next event and the page shows it.
OnFleetUpdate(c) ==
    /\ endpoint[c] = "streaming"
    /\ c \notin cut
    /\ page.connection = c
    /\ page.connectionState = "live"
    /\ queue[c] # <<>>
    /\ page' = [page EXCEPT !.summary = Head(queue[c])]
    /\ queue' = [queue EXCEPT ![c] = Tail(@)]
    /\ UNCHANGED <<fleet, reading, subscribers, endpoint, cut, due, bounds>>

SnapshotArrives(c) ==
    /\ reading[c].at = "done"
    /\ reading' = [reading EXCEPT ![c] = Idle]
    /\ page' = IF Cancelled(c) THEN page
               ELSE [page EXCEPT !.summary = SummaryOf(reading[c]),
                                 !.loading = @ /\ c # page.since]
    /\ UNCHANGED <<fleet, server, cut, due, bounds>>

\* Mutant: the failure of the first snapshot leaves the page loading.
SnapshotFailsLoading(c) ==
    /\ failures < MaxFailures
    /\ reading[c].at # "idle"
    /\ reading' = [reading EXCEPT ![c] = Idle]
    /\ page' = IF Cancelled(c) \/ c # page.since THEN page
               ELSE [page EXCEPT !.error = TRUE]
    /\ failures' = failures + 1
    /\ UNCHANGED <<fleet, server, cut, due, changes>>

\* Only the failure of a visit's first snapshot is shown.
SnapshotFails(c) ==
    /\ failures < MaxFailures
    /\ reading[c].at # "idle"
    /\ reading' = [reading EXCEPT ![c] = Idle]
    /\ page' = IF Cancelled(c) \/ c # page.since THEN page
               ELSE [page EXCEPT !.error = TRUE, !.loading = FALSE]
    /\ failures' = failures + 1
    /\ UNCHANGED <<fleet, server, cut, due, changes>>

\* What the server still has in the queue is lost.
BreakConnection(c) ==
    /\ due < MaxConnections
    /\ page.connection = c
    /\ c \notin cut
    /\ cut' = cut \cup {c}
    /\ due' = due + 1
    /\ UNCHANGED <<fleet, reading, server, page, bounds>>

\* onerror: the EventSource is about to try again.
OnError(c) ==
    /\ page.connection = c
    /\ c \in cut
    /\ page' = [page EXCEPT !.connection = None, !.connectionState = "reconnecting"]
    /\ UNCHANGED <<fleet, reading, server, cut, due, bounds>>

\* EventSource connects again on its own.
Retry ==
    /\ page.mounted
    /\ page.connection = None
    /\ page' = [page EXCEPT !.connection = NextConnection]
    /\ endpoint' = [endpoint EXCEPT ![NextConnection] = "requested"]
    /\ UNCHANGED <<fleet, reading, subscribers, queue, cut, due, bounds>>

\* The clean-up of the effect: cancelled is set, the EventSource is closed.
Unmount ==
    /\ page.mounted
    /\ page' = Unmounted
    /\ cut' = cut \cup ({page.connection} \ {None})
    /\ UNCHANGED <<fleet, reading, server, due, bounds>>

-----------------------------------------------------------------------------

\* The four parties: a request in hand, each one step at a time.
PublisherSteps == WakePublisher \/ Read(Publisher) \/ Publish

StreamSteps(c) == Subscribe(c) \/ EndStream(c)

SnapshotSteps(c) == Read(c) \/ SnapshotArrives(c)

BrowserSteps(c) == OnOpen(c) \/ OnFleetUpdate(c) \/ OnError(c)

Next ==
    \/ PublisherSteps \/ PublisherFails
    \/ \E c \in Connections :
          \/ Accept(c) \/ StreamSteps(c)
          \/ SnapshotSteps(c) \/ SnapshotFails(c)
          \/ BrowserSteps(c) \/ BreakConnection(c)
    \/ Mount \/ Retry \/ Unmount
    \/ FleetChanges

Spec == Init /\ [][Next]_vars

\* The event loops run what can run, the database answers, and a connection
\* that is not broken carries what is written to it.  A broken one is noticed
\* at both ends: the server writes a keep-alive every few seconds, and the
\* browser is told by its network stack.
Fairness ==
    /\ WF_vars(PublisherSteps)
    /\ \A c \in Connections :
          /\ WF_vars((c \notin cut /\ Accept(c)) \/ StreamSteps(c))
          /\ WF_vars(SnapshotSteps(c))
    /\ WF_vars(Retry \/ \E c \in Connections : BrowserSteps(c))

FairSpec == Spec /\ Fairness

-----------------------------------------------------------------------------

Fleet == [total : Nat, online : Nat]

Summaries == [total : Nat, online : Nat, offline : Int]

\* The types of the variables; a client is subscribed only while its generator
\* is there to unsubscribe it (stream.py, _event_stream).
TypeOK ==
    /\ fleet \in Fleet
    /\ reading \in [Readers -> [at : {"idle", "total", "state", "done"},
                                total : Nat, online : Nat]]
    /\ subscribers \subseteq {c \in Connections : endpoint[c] = "streaming"}
    /\ queue \in [Connections -> Seq(Summaries)]
    /\ endpoint \in [Connections -> {"none", "requested", "accepted", "streaming", "ended"}]
    /\ cut \subseteq Connections
    /\ page \in [mounted : BOOLEAN, since : Connections \cup {0},
                 connection : Connections \cup {None}, hasConnectedBefore : BOOLEAN,
                 summary : Summaries \cup {None}, loading : BOOLEAN, error : BOOLEAN,
                 connectionState : {"connecting", "live", "reconnecting", "disconnected"}]
    /\ changes \in 0..MaxChanges
    /\ due \in 0..MaxConnections
    /\ failures \in 0..MaxFailures

\* A client that does not read costs the server no more than its queue
\* (broadcaster.py, publish).
SlowClientBounded == \A c \in Connections : Len(queue[c]) <= QueueSize

\* Once the fleet no longer changes and the network holds, the summary of an
\* open dashboard becomes that of the fleet, and stays so: whatever was lost
\* with a connection or a full queue, whatever snapshot came late or was read
\* while the fleet changed, and although an iteration of the publisher has
\* failed (useRealtimeFleetSummary.ts, realtime_publisher.py).
PageCatchesUp == <>[](page.mounted => page.summary = SummaryOf(fleet))

\* The page does not show "loading" for ever: its first snapshot arrives or
\* fails, and either ends it (useRealtimeFleetSummary.ts).
LoadingEnds == page.loading ~> ~page.loading

\* The queue of a client that is gone is removed for good, also when the client
\* had left before it was subscribed (stream.py, finally).
GoneIsUnsubscribed ==
    \A c \in Connections : c \in cut ~> [](c \notin subscribers)

\* Once the dashboard is closed for good, the publisher leaves the database
\* alone (realtime_publisher.py, subscriber_count).
QuietWithoutListeners ==
    <>[](~page.mounted) => <>[](reading[Publisher].at = "idle")
=============================================================================
