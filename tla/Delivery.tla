------------------------------ MODULE Delivery ------------------------------
(***************************************************************************)
(* The simulator's way from a battery's tick to the backend: events are    *)
(* gathered into batches, batches go through a bounded queue to a few      *)
(* sender workers, and a worker retries a batch until it is answered,      *)
(* refused or given up.  One coroutine runs at a time: an action is what   *)
(* runs between two awaits.                                                *)
(*                                                                         *)
(* The network may delay or lose a request or its answer: a request that   *)
(* its sender has given up on stays in wire, and may be handled later.     *)
(***************************************************************************)
EXTENDS Naturals, Sequences, FiniteSets

CONSTANTS Batteries,    \* the simulated batteries
          Workers,      \* SEND_WORKERS sender tasks
          Main,         \* run_simulator, which submits the last batch itself
          BatchSize,    \* BATCH_SIZE
          MaxBatches,   \* QUEUE_MAX_BATCHES
          MaxAttempts,  \* RETRY_MAX_ATTEMPTS
          MaxTicks,     \* max_ticks; a bound where the fleet runs for ever
          FiniteRuns,   \* whether max_ticks may be given: a set of BOOLEANs
          MaxRefusals   \* bound: how often the backend answers with a 4xx

ASSUME DeliveryAssumption ==
    /\ Main \notin Batteries
    /\ IsFiniteSet(Batteries) /\ IsFiniteSet(Workers)
    /\ BatchSize \in Nat \ {0}
    /\ MaxBatches \in Nat \ {0}
    /\ MaxAttempts \in Nat \ {0}
    /\ MaxTicks \in Nat
    /\ FiniteRuns \subseteq BOOLEAN
    /\ MaxRefusals \in Nat

\* An event is known by the battery and the tick that made it: its event_id.
Events == Batteries \X (1..MaxTicks)

Submitters == Batteries \cup {Main}

VARIABLES
    ticks,     \* per battery: the events it has made
    buffer,    \* BatchAccumulator._buffer
    held,      \* per submitter: the batch its put() waits with, {}: none
    queue,     \* DeliveryQueue._queue
    wpc,       \* per worker: what it awaits
    carried,   \* per worker: the batch it has taken from the queue, {}: none
    attempt,   \* per worker: the attempt it is at
    wire,      \* the requests that the backend has not handled
    stored,    \* the events that the backend has stored
    sent,      \* the events of the batches counted in batches_sent
    dropped,   \* the events of the batches counted in batches_dropped
    main,      \* where run_simulator is
    outcome,   \* how it ends
    refusals,
    finite     \* whether max_ticks was given to this run

production == <<ticks, buffer, held>>
senders == <<wpc, carried, attempt>>
counters == <<sent, dropped>>
vars == <<production, queue, senders, wire, stored, counters, main, outcome, refusals, finite>>

Init ==
    /\ ticks = [b \in Batteries |-> 0]
    /\ buffer = {}
    /\ held = [s \in Submitters |-> {}]
    /\ queue = <<>>
    /\ wpc = [w \in Workers |-> "get"]
    /\ carried = [w \in Workers |-> {}]
    /\ attempt = [w \in Workers |-> 0]
    /\ wire = {}
    /\ stored = {}
    /\ sent = {} /\ dropped = {}
    /\ main = "running"
    /\ outcome = "none"
    /\ refusals = 0
    /\ finite \in FiniteRuns

-----------------------------------------------------------------------------
(***************************************************************************)
(* Producers: Fleet, BatchAccumulator.add, DeliveryQueue.submit.           *)
(***************************************************************************)

QueueFull == Len(queue) >= MaxBatches

\* Mutant: nobody waits for room in the queue.
SubmitAnyway(s, batch) == queue' = Append(queue, batch) /\ UNCHANGED held

\* submit(): into the queue at once if there is room, else wait with the batch.
Submit(s, batch) ==
    \/ ~ QueueFull /\ queue' = Append(queue, batch) /\ UNCHANGED held
    \/ QueueFull /\ held' = [held EXCEPT ![s] = batch] /\ UNCHANGED queue

FleetAlive == main \in {"running", "stopping"}

\* Mutant: the buffer is emptied after the flush, with what came in between.
GatherLate(b, events) ==
    IF Cardinality(events) < BatchSize
    THEN buffer' = events /\ UNCHANGED <<queue, held>>
    ELSE buffer' = (IF QueueFull THEN events ELSE {}) /\ Submit(b, events)

\* add(): a batch is swapped out of the buffer before it is handed over.
Gather(b, events) ==
    IF Cardinality(events) < BatchSize
    THEN buffer' = events /\ UNCHANGED <<queue, held>>
    ELSE buffer' = {} /\ Submit(b, events)

\* One tick of a battery.  While it waits with a batch it makes no event.
Produce(b) ==
    /\ FleetAlive
    /\ held[b] = {}
    /\ ticks[b] < MaxTicks
    /\ ticks' = [ticks EXCEPT ![b] = @ + 1]
    /\ Gather(b, buffer \cup {<<b, ticks[b] + 1>>})
    /\ UNCHANGED <<senders, wire, stored, counters, main, outcome, refusals, finite>>

\* A waiting submitter finds room.  Which of several comes first is left open:
\* asyncio.Queue wakes the oldest, and lets a newcomer overtake it.
Put(s) ==
    /\ held[s] # {}
    /\ ~ QueueFull
    /\ queue' = Append(queue, held[s])
    /\ held' = [held EXCEPT ![s] = {}]
    /\ UNCHANGED <<ticks, buffer, senders, wire, stored, counters, main, outcome, refusals, finite>>

-----------------------------------------------------------------------------
(***************************************************************************)
(* Sender workers: DeliveryQueue._work and BackendClient.send_batch.       *)
(***************************************************************************)

Post(w, n, batch) == wire' = wire \cup {[worker |-> w, attempt |-> n, events |-> batch]}

Take(w) ==
    /\ wpc[w] = "get"
    /\ queue # <<>>
    /\ queue' = Tail(queue)
    /\ carried' = [carried EXCEPT ![w] = Head(queue)]
    /\ attempt' = [attempt EXCEPT ![w] = 1]
    /\ Post(w, 1, Head(queue))
    /\ wpc' = [wpc EXCEPT ![w] = "sending"]
    /\ UNCHANGED <<production, stored, counters, main, outcome, refusals, finite>>

\* Mutant: no task_done().
BatchDoneUncounted(w, next) ==
    /\ UNCHANGED carried
    /\ attempt' = [attempt EXCEPT ![w] = 0]
    /\ wpc' = [wpc EXCEPT ![w] = next]

\* The batch is done with, one way or another: task_done().
BatchDone(w, next) ==
    /\ carried' = [carried EXCEPT ![w] = {}]
    /\ attempt' = [attempt EXCEPT ![w] = 0]
    /\ wpc' = [wpc EXCEPT ![w] = next]

Delivered(w) ==
    /\ sent' = sent \cup carried[w]
    /\ BatchDone(w, "get")
    /\ UNCHANGED dropped

\* Mutant: one attempt more than the policy allows.
AttemptFailedOnceMore(w) ==
    \/ /\ attempt[w] <= MaxAttempts
       /\ wpc' = [wpc EXCEPT ![w] = "backoff"]
       /\ UNCHANGED <<carried, attempt, counters>>
    \/ /\ attempt[w] > MaxAttempts
       /\ dropped' = dropped \cup carried[w]
       /\ BatchDone(w, "get")
       /\ UNCHANGED sent

\* A failure worth a retry: wait and send again, or count the batch as dropped.
AttemptFailed(w) ==
    \/ /\ attempt[w] < MaxAttempts
       /\ wpc' = [wpc EXCEPT ![w] = "backoff"]
       /\ UNCHANGED <<carried, attempt, counters>>
    \/ /\ attempt[w] >= MaxAttempts
       /\ dropped' = dropped \cup carried[w]
       /\ BatchDone(w, "get")
       /\ UNCHANGED sent

\* A failure that no retry mends ends the worker.  The batch is marked done.
Refused(w) == BatchDone(w, "dead") /\ UNCHANGED counters

\* No answer in time, or no connection: httpx.TransportError.
Timeout(w) ==
    /\ wpc[w] = "sending"
    /\ AttemptFailed(w)
    /\ UNCHANGED <<production, queue, wire, stored, main, outcome, refusals, finite>>

\* The delay is over: the same payload goes out again.
Resend(w) ==
    /\ wpc[w] = "backoff"
    /\ attempt' = [attempt EXCEPT ![w] = @ + 1]
    /\ Post(w, attempt[w] + 1, carried[w])
    /\ wpc' = [wpc EXCEPT ![w] = "sending"]
    /\ UNCHANGED <<production, queue, carried, stored, counters, main, outcome, refusals, finite>>

-----------------------------------------------------------------------------
(***************************************************************************)
(* The backend, as the sender sees it: it handles a request and answers,   *)
(* and the answer arrives or is lost.  Events are stored by their ids, so  *)
(* storing a batch again changes nothing (module Ingestion, StoredOnce).   *)
(***************************************************************************)

Awaited(m) ==
    /\ wpc[m.worker] = "sending"
    /\ attempt[m.worker] = m.attempt
    /\ carried[m.worker] = m.events

NoAnswer == UNCHANGED <<senders, counters>>

Accept(m) ==
    /\ stored' = stored \cup m.events
    /\ (Awaited(m) /\ Delivered(m.worker)) \/ NoAnswer
    /\ UNCHANGED refusals

\* 5xx: before anything was committed, or after (the rules of a batch fail).
Trouble(m) ==
    /\ stored' \in {stored, stored \cup m.events}
    /\ (Awaited(m) /\ AttemptFailed(m.worker)) \/ NoAnswer
    /\ UNCHANGED refusals

\* 4xx: nothing is stored.
Refuse(m) ==
    /\ refusals < MaxRefusals
    /\ refusals' = refusals + 1
    /\ (Awaited(m) /\ Refused(m.worker)) \/ NoAnswer
    /\ UNCHANGED stored

Handle ==
    /\ \E m \in wire :
        /\ wire' = wire \ {m}
        /\ Accept(m) \/ Trouble(m) \/ Refuse(m)
    /\ UNCHANGED <<production, queue, main, outcome, finite>>

-----------------------------------------------------------------------------
(***************************************************************************)
(* run_simulator, from delivery.start() on.                                *)
(***************************************************************************)

\* Batteries that run for ever never finish: there MaxTicks is only a bound.
FleetDone == finite /\ \A b \in Batteries : ticks[b] = MaxTicks /\ held[b] = {}

SomeWorkerDead == \E w \in Workers : wpc[w] = "dead"

\* The fleet has finished: flush the last partial batch.
Flush ==
    /\ main = "running"
    /\ FleetDone
    /\ main' = "flushing"
    /\ buffer' = {}
    /\ IF buffer = {} THEN UNCHANGED <<queue, held>> ELSE Submit(Main, buffer)
    /\ UNCHANGED <<ticks, senders, wire, stored, counters, outcome, refusals, finite>>

\* Mutant: the workers are looked at once the fleet is done.
WorkerFailedLate ==
    /\ main = "running"
    /\ FleetDone
    /\ SomeWorkerDead
    /\ main' = "stopping"
    /\ outcome' = "error"
    /\ UNCHANGED <<production, queue, senders, wire, stored, counters, refusals, finite>>

\* A worker has died while the fleet runs: its error ends the run.
WorkerFailed ==
    /\ main = "running"
    /\ ~ FleetDone
    /\ SomeWorkerDead
    /\ main' = "stopping"
    /\ outcome' = "error"
    /\ UNCHANGED <<production, queue, senders, wire, stored, counters, refusals, finite>>

\* The flush has handed its batch over: drain() begins.
StartDrain ==
    /\ main = "flushing"
    /\ held[Main] = {}
    /\ main' = "draining"
    /\ UNCHANGED <<production, queue, senders, wire, stored, counters, outcome, refusals, finite>>

\* queue.join(): as many task_done() as there were batches.
Joined == queue = <<>> /\ \A w \in Workers : carried[w] = {}

\* Mutant: a queue that is empty is taken for delivered.
DrainTrusting ==
    /\ main = "draining"
    /\ Joined \/ SomeWorkerDead
    /\ outcome' = IF Joined THEN "ok" ELSE "error"
    /\ main' = "stopping"
    /\ UNCHANGED <<production, queue, senders, wire, stored, counters, refusals, finite>>

Drain ==
    /\ main = "draining"
    /\ Joined \/ SomeWorkerDead
    /\ outcome' = IF SomeWorkerDead THEN "error" ELSE "ok"
    /\ main' = "stopping"
    /\ UNCHANGED <<production, queue, senders, wire, stored, counters, refusals, finite>>

\* The finally clause: the fleet is cancelled, with the batches its batteries
\* wait with ...
StopFleet ==
    /\ main = "stopping"
    /\ held' = [s \in Submitters |-> {}]
    /\ main' = "stopped"
    /\ UNCHANGED <<ticks, buffer, queue, senders, wire, stored, counters, outcome, refusals, finite>>

\* ... and then the workers, with the batches they carry.
StopWorkers ==
    /\ main = "stopped"
    /\ wpc' = [w \in Workers |-> IF wpc[w] = "dead" THEN "dead" ELSE "cancelled"]
    /\ carried' = [w \in Workers |-> {}]
    /\ attempt' = [w \in Workers |-> 0]
    /\ main' = "ended"
    /\ UNCHANGED <<production, queue, wire, stored, counters, outcome, refusals, finite>>

RunSimulator == Flush \/ WorkerFailed \/ StartDrain \/ Drain \/ StopFleet \/ StopWorkers

Work(w) == Take(w) \/ Timeout(w) \/ Resend(w)

Next ==
    \/ \E b \in Batteries : Produce(b)
    \/ \E s \in Submitters : Put(s)
    \/ \E w \in Workers : Work(w)
    \/ Handle
    \/ RunSimulator

Spec == Init /\ [][Next]_vars

\* Every coroutine that can go on is run, sleeps and timeouts end.  The network
\* and the backend need not answer anything.
Fairness ==
    /\ \A b \in Batteries : WF_vars(Produce(b))
    /\ \A s \in Submitters : WF_vars(Put(s))
    /\ \A w \in Workers : WF_vars(Work(w))
    /\ WF_vars(RunSimulator)

FairSpec == Spec /\ Fairness

-----------------------------------------------------------------------------
Batches == SUBSET Events

TypeOK ==
    /\ ticks \in [Batteries -> 0..MaxTicks]
    /\ buffer \in Batches
    /\ held \in [Submitters -> Batches]
    /\ queue \in Seq(Batches)
    /\ wpc \in [Workers -> {"get", "sending", "backoff", "dead", "cancelled"}]
    /\ carried \in [Workers -> Batches]
    /\ attempt \in [Workers -> 0..MaxAttempts]
    /\ wire \subseteq [worker : Workers, attempt : 1..MaxAttempts, events : Batches]
    /\ stored \in Batches
    /\ sent \in Batches /\ dropped \in Batches
    /\ main \in {"running", "flushing", "draining", "stopping", "stopped", "ended"}
    /\ outcome \in {"none", "ok", "error"}
    /\ refusals \in Nat
    /\ finite \in BOOLEAN

Produced == {e \in Events : e[2] <= ticks[e[1]]}

\* Where the event is, of the places that can answer for it.
Places(e) ==
    {<<"buffer", x>> : x \in {x \in {buffer} : e \in x}}
    \cup {<<"held", s>> : s \in {s \in Submitters : e \in held[s]}}
    \cup {<<"queue", k>> : k \in {k \in DOMAIN queue : e \in queue[k]}}
    \cup {<<"carried", w>> : w \in {w \in Workers : e \in carried[w]}}
    \cup {<<"counted", c>> : c \in {c \in {"sent", "dropped"} :
              e \in IF c = "sent" THEN sent ELSE dropped}}

\* No event is in two places, whoever flushes, waits or retries at the same
\* time; and, until a worker dies or the run is being stopped, none is in none:
\* it is on its way, or counted (batching.py, "lost or duplicated";
\* delivery.py, "Nothing is dropped silently").
NothingLost ==
    \A e \in Produced :
        /\ Cardinality(Places(e)) <= 1
        /\ ~ SomeWorkerDead /\ main \notin {"stopped", "ended"} => Places(e) # {}

InMemory ==
    buffer \cup (UNION {held[s] : s \in Submitters})
           \cup (UNION {queue[k] : k \in DOMAIN queue})
           \cup (UNION {carried[w] : w \in Workers})

\* The events in memory stay bounded however long the backend is down
\* (delivery.py, backpressure): full batches in the queue, with each worker and
\* with each battery that waits, and a partial one in the buffer.
BoundedMemory ==
    Cardinality(InMemory) <=
        BatchSize * (MaxBatches + Cardinality(Workers) + Cardinality(Batteries)) + BatchSize - 1

\* What the sender promises of what it is given: module EventDelivery.
Promise == INSTANCE EventDelivery WITH produced <- Produced

\* A batch counted as sent is stored, however often it was tried and whichever
\* answers were lost; and a run that ends well has sent or counted as dropped
\* every event it made (delivery.py, drain).
DeliveryPromise == Promise!Spec

\* A finite run that loses no worker comes to its end, though the backend may
\* never answer (delivery.py, "instead of waiting forever").
RunsToTheEnd == finite /\ []~ SomeWorkerDead => <>(main = "ended" /\ outcome = "ok")

\* main.py: if a worker fails, "stop the fleet and raise that error, so the
\* process ends loudly ... Otherwise producers would wait forever on a queue
\* nobody is emptying".
FailureIsLoud == SomeWorkerDead ~> (main = "ended" /\ outcome = "error")
=============================================================================
