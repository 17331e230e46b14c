--------------------------- MODULE DeliveryProofs ---------------------------
(***************************************************************************)
(* What the simulator does with its events, proved for every number of     *)
(* batteries and workers, every batch and queue size and every retry       *)
(* policy: none is in two places, none is lost while the workers live, the *)
(* memory they take is bounded, and the delivery keeps the promise of      *)
(* module EventDelivery.                                                   *)
(***************************************************************************)
EXTENDS Delivery, FunctionTheorems, FiniteSetTheorems, TLAPS

Pcs == {"get", "sending", "backoff", "dead", "cancelled"}

\* The attempt a worker is at: none without a batch, one that was posted while
\* it waits for an answer, one that is not the last while it waits to retry.
AttemptOK ==
    \A w \in Workers :
        /\ wpc[w] = "sending" => attempt[w] >= 1
        /\ wpc[w] = "backoff" => attempt[w] < MaxAttempts
        /\ carried[w] # {} => wpc[w] \in {"sending", "backoff"}

TypeInv == TypeOK /\ AttemptOK

-----------------------------------------------------------------------------
(***************************************************************************)
(* Queues and events.                                                      *)
(***************************************************************************)

\* What asyncio.Queue.put_nowait leaves: the old batches, and the new one last.
LEMMA AppendedQueue ==
    ASSUME NEW S, NEW q \in Seq(S), NEW x \in S
    PROVE  /\ Append(q, x) \in Seq(S)
           /\ Len(Append(q, x)) = Len(q) + 1
           /\ DOMAIN q = 1..Len(q)
           /\ DOMAIN Append(q, x) = 1..Len(q) + 1
           /\ \A k \in DOMAIN q : Append(q, x)[k] = q[k]
           /\ Append(q, x)[Len(q) + 1] = x
           /\ Len(q) \in Nat
  OBVIOUS

\* What asyncio.Queue.get leaves: every batch but the first, one place further.
LEMMA TakenQueue ==
    ASSUME NEW S, NEW q \in Seq(S), q # <<>>
    PROVE  /\ Head(q) \in S
           /\ Tail(q) \in Seq(S)
           /\ Len(q) \in Nat \ {0}
           /\ Len(Tail(q)) = Len(q) - 1
           /\ DOMAIN q = 1..Len(q)
           /\ 1 \in DOMAIN q
           /\ DOMAIN Tail(q) = 1..Len(q) - 1
           /\ Head(q) = q[1]
           /\ \A k \in DOMAIN Tail(q) : k + 1 \in DOMAIN q /\ Tail(q)[k] = q[k + 1]
  OBVIOUS

\* The event of a tick is an event, and new: no tick before made it.
LEMMA NewEvent ==
    ASSUME TypeOK, NEW b \in Batteries, Produce(b)
    PROVE  /\ <<b, ticks[b] + 1>> \in Events
           /\ <<b, ticks[b] + 1>> \notin Produced
           /\ Produced' = Produced \cup {<<b, ticks[b] + 1>>}
<1>1. /\ ticks \in [Batteries -> 0..MaxTicks]
      /\ ticks[b] < MaxTicks
      /\ ticks' = [ticks EXCEPT ![b] = ticks[b] + 1]
      /\ MaxTicks \in Nat
  BY DeliveryAssumption DEF TypeOK, Produce
<1>2. ticks[b] + 1 \in 1..MaxTicks
  BY <1>1
<1>3. \A e \in Events : e = <<e[1], e[2]>> /\ e[1] \in Batteries /\ e[2] \in 1..MaxTicks
  BY DEF Events
<1>4. <<b, ticks[b] + 1>> \in Events
  BY <1>2 DEF Events
<1>5. \A e \in Events : e[2] <= ticks'[e[1]] <=> e[2] <= ticks[e[1]] \/ e = <<b, ticks[b] + 1>>
  <2> TAKE e \in Events
  <2>1. PICK c \in Batteries, n \in 1..MaxTicks : e = <<c, n>>
    BY <1>3
  <2>2. CASE c = b
    BY <2>1, <2>2, <1>1
  <2>3. CASE c # b
    BY <2>1, <2>3, <1>1
  <2> QED
    BY <2>2, <2>3
<1>6. <<b, ticks[b] + 1>> \notin Produced
  BY <1>1 DEF Produced
<1> QED
  BY <1>4, <1>5, <1>6 DEF Produced

\* Nothing but a tick makes events.
LEMMA SameEvents == UNCHANGED ticks => Produced' = Produced
  BY DEF Produced

-----------------------------------------------------------------------------
(***************************************************************************)
(* Type correctness.                                                       *)
(***************************************************************************)

\* submit() leaves batches in the queue and with the submitters.
LEMMA SubmitType ==
    ASSUME TypeOK, NEW s \in Submitters, NEW batch \in Batches, Submit(s, batch)
    PROVE  queue' \in Seq(Batches) /\ held' \in [Submitters -> Batches]
<1>1. queue \in Seq(Batches) /\ held \in [Submitters -> Batches]
  BY DEF TypeOK
<1>2. Append(queue, batch) \in Seq(Batches)
  BY <1>1, AppendedQueue
<1> QED
  BY <1>1, <1>2 DEF Submit

LEMMA TypeInit == Init => TypeInv
  BY DeliveryAssumption DEF Init, TypeInv, TypeOK, AttemptOK, Batches, Submitters, Events

LEMMA ProduceType ==
    ASSUME TypeInv, NEW b \in Batteries, Produce(b)
    PROVE  TypeInv'
<1> DEFINE new == buffer \cup {<<b, ticks[b] + 1>>}
<1>1. new \in Batches /\ {} \in Batches /\ b \in Submitters
  BY NewEvent DEF TypeInv, TypeOK, Batches, Submitters
<1>2. ticks' \in [Batteries -> 0..MaxTicks]
  BY DeliveryAssumption DEF TypeInv, TypeOK, Produce
<1>3. /\ buffer' \in Batches
      /\ queue' \in Seq(Batches)
      /\ held' \in [Submitters -> Batches]
  <2>1. Gather(b, new)
    BY DEF Produce
  <2>2. CASE Cardinality(new) < BatchSize
    BY <2>1, <2>2, <1>1 DEF Gather, TypeInv, TypeOK
  <2>3. CASE ~(Cardinality(new) < BatchSize)
    <3>1. buffer' = {} /\ Submit(b, new)
      BY <2>1, <2>3 DEF Gather
    <3> QED
      BY <3>1, <1>1, SubmitType DEF TypeInv
  <2> QED
    BY <2>2, <2>3
<1> QED
  BY <1>2, <1>3 DEF TypeInv, TypeOK, AttemptOK, Produce, senders, counters

LEMMA PutType ==
    ASSUME TypeInv, NEW s \in Submitters, Put(s)
    PROVE  TypeInv'
<1>1. held[s] \in Batches /\ {} \in Batches
  BY DEF TypeInv, TypeOK, Batches
<1>2. queue' \in Seq(Batches)
  BY <1>1, AppendedQueue DEF TypeInv, TypeOK, Put
<1> QED
  BY <1>1, <1>2 DEF TypeInv, TypeOK, AttemptOK, Put, senders, counters

LEMMA TakeType ==
    ASSUME TypeInv, NEW w \in Workers, Take(w)
    PROVE  TypeInv'
<1>1. queue \in Seq(Batches) /\ queue # <<>>
  BY DEF TypeInv, TypeOK, Take
<1>2. Head(queue) \in Batches /\ Tail(queue) \in Seq(Batches)
  BY <1>1, TakenQueue
<1>3. [worker |-> w, attempt |-> 1, events |-> Head(queue)]
         \in [worker : Workers, attempt : 1..MaxAttempts, events : Batches]
  BY <1>2, DeliveryAssumption
<1>4. wire' \subseteq [worker : Workers, attempt : 1..MaxAttempts, events : Batches]
  BY <1>3 DEF TypeInv, TypeOK, Take, Post
<1> QED
  BY <1>2, <1>4, DeliveryAssumption DEF TypeInv, TypeOK, AttemptOK, Take, production, counters

LEMMA ResendType ==
    ASSUME TypeInv, NEW w \in Workers, Resend(w)
    PROVE  TypeInv'
<1>1. attempt[w] + 1 \in 1..MaxAttempts
  BY DeliveryAssumption DEF TypeInv, TypeOK, AttemptOK, Resend
<1>2. [worker |-> w, attempt |-> attempt[w] + 1, events |-> carried[w]]
         \in [worker : Workers, attempt : 1..MaxAttempts, events : Batches]
  BY <1>1 DEF TypeInv, TypeOK
<1>3. wire' \subseteq [worker : Workers, attempt : 1..MaxAttempts, events : Batches]
  BY <1>2 DEF TypeInv, TypeOK, Resend, Post
<1> QED
  BY <1>1, <1>3, DeliveryAssumption DEF TypeInv, TypeOK, AttemptOK, Resend, production, counters

\* What the end of an attempt may do to the sender's side.
LEMMA AnswerType ==
    ASSUME TypeInv, NEW w \in Workers, wpc[w] = "sending",
           Delivered(w) \/ AttemptFailed(w) \/ Refused(w)
    PROVE  /\ wpc' \in [Workers -> Pcs]
           /\ carried' \in [Workers -> Batches]
           /\ attempt' \in [Workers -> 0..MaxAttempts]
           /\ sent' \in Batches /\ dropped' \in Batches
           /\ AttemptOK'
<1> USE DeliveryAssumption DEF TypeInv, TypeOK, AttemptOK, BatchDone, Batches, Pcs
<1>1. CASE Delivered(w)
  BY <1>1 DEF Delivered
<1>2. CASE AttemptFailed(w)
  <2>1. CASE attempt[w] < MaxAttempts /\ wpc' = [wpc EXCEPT ![w] = "backoff"]
             /\ UNCHANGED <<carried, attempt, counters>>
    BY <2>1 DEF counters
  <2>2. CASE dropped' = dropped \cup carried[w] /\ BatchDone(w, "get") /\ UNCHANGED sent
    BY <2>2
  <2> QED
    BY <1>2, <2>1, <2>2 DEF AttemptFailed
<1>3. CASE Refused(w)
  BY <1>3 DEF Refused, counters
<1> QED
  BY <1>1, <1>2, <1>3

LEMMA TimeoutType ==
    ASSUME TypeInv, NEW w \in Workers, Timeout(w)
    PROVE  TypeInv'
<1>1. wpc[w] = "sending" /\ AttemptFailed(w)
  BY DEF Timeout
<1> HIDE DEF TypeInv
<1> QED
  BY <1>1, AnswerType DEF TypeInv, TypeOK, Timeout, production, Pcs

\* An answer ends its worker's attempt, or comes too late to be noticed.
LEMMA HandleCases ==
    ASSUME TypeInv, NEW m \in wire, Accept(m) \/ Trouble(m) \/ Refuse(m)
    PROVE  /\ m \in [worker : Workers, attempt : 1..MaxAttempts, events : Batches]
           /\ stored' \in {stored, stored \cup m.events}
           /\ \/ NoAnswer
              \/ /\ Awaited(m)
                 /\ \/ Delivered(m.worker) /\ stored' = stored \cup m.events
                    \/ AttemptFailed(m.worker)
                    \/ Refused(m.worker)
<1>1. m \in [worker : Workers, attempt : 1..MaxAttempts, events : Batches]
  BY DEF TypeInv, TypeOK
<1> QED
  BY <1>1 DEF Accept, Trouble, Refuse

LEMMA HandleType ==
    ASSUME TypeInv, Handle
    PROVE  TypeInv'
<1>1. PICK m \in wire : wire' = wire \ {m} /\ (Accept(m) \/ Trouble(m) \/ Refuse(m))
  BY DEF Handle
<1>2. /\ m \in [worker : Workers, attempt : 1..MaxAttempts, events : Batches]
      /\ stored' \in {stored, stored \cup m.events}
      /\ \/ NoAnswer
         \/ /\ Awaited(m)
            /\ Delivered(m.worker) \/ AttemptFailed(m.worker) \/ Refused(m.worker)
  BY <1>1, HandleCases
<1>3. stored' \in Batches
  BY <1>2 DEF TypeInv, TypeOK, Batches
<1>4. refusals' \in Nat
  BY <1>1 DEF Accept, Trouble, Refuse, TypeInv, TypeOK
<1>5. /\ wpc' \in [Workers -> Pcs]
      /\ carried' \in [Workers -> Batches]
      /\ attempt' \in [Workers -> 0..MaxAttempts]
      /\ sent' \in Batches /\ dropped' \in Batches
      /\ AttemptOK'
  <2>1. CASE NoAnswer
    BY <2>1 DEF NoAnswer, senders, counters, TypeInv, TypeOK, AttemptOK, Pcs
  <2>2. CASE Awaited(m) /\ (Delivered(m.worker) \/ AttemptFailed(m.worker) \/ Refused(m.worker))
    <3>1. m.worker \in Workers /\ wpc[m.worker] = "sending"
      BY <1>2, <2>2 DEF Awaited
    <3> QED
      BY <2>2, <3>1, AnswerType
  <2> QED
    BY <1>2, <2>1, <2>2
<1>6. wire' \subseteq [worker : Workers, attempt : 1..MaxAttempts, events : Batches]
  BY <1>1 DEF TypeInv, TypeOK
<1> QED
  BY <1>3, <1>4, <1>5, <1>6 DEF TypeInv, TypeOK, Handle, production, Pcs

LEMMA RunSimulatorType ==
    ASSUME TypeInv, RunSimulator
    PROVE  TypeInv'
<1>1. CASE Flush
  <2>1. {} \in Batches /\ Main \in Submitters /\ buffer \in Batches
    BY DEF TypeInv, TypeOK, Batches, Submitters
  <2>2. queue' \in Seq(Batches) /\ held' \in [Submitters -> Batches]
    BY <1>1, <2>1, SubmitType DEF Flush, TypeInv, TypeOK
  <2> QED
    BY <1>1, <2>1, <2>2 DEF Flush, TypeInv, TypeOK, AttemptOK, senders, counters
<1>2. CASE WorkerFailed \/ StartDrain \/ Drain
  BY <1>2 DEF WorkerFailed, StartDrain, Drain, TypeInv, TypeOK, AttemptOK,
              production, senders, counters
<1>3. CASE StopFleet
  BY <1>3 DEF StopFleet, TypeInv, TypeOK, AttemptOK, senders, counters, Batches
<1>4. CASE StopWorkers
  BY <1>4, DeliveryAssumption DEF StopWorkers, TypeInv, TypeOK, AttemptOK, production, counters, Batches
<1> QED
  BY <1>1, <1>2, <1>3, <1>4 DEF RunSimulator

LEMMA TypeNext ==
    ASSUME TypeInv, [Next]_vars
    PROVE  TypeInv'
<1>1. CASE UNCHANGED vars
  BY <1>1 DEF TypeInv, TypeOK, AttemptOK, vars, production, senders, counters
<1>2. CASE Next
  BY <1>2, ProduceType, PutType, TakeType, TimeoutType, ResendType, HandleType, RunSimulatorType
     DEF Next, Work
<1> QED
  BY <1>1, <1>2

\* The state of the delivery keeps its types: what is queued, held and carried
\* are batches, and no attempt goes beyond the policy (delivery.py, backoff).
THEOREM DeliveryTypeCorrect == Spec => []TypeOK
<1>1. TypeInv => TypeOK
  BY DEF TypeInv
<1> QED
  BY <1>1, TypeInit, TypeNext, PTL DEF Spec

-----------------------------------------------------------------------------
(***************************************************************************)
(* The inductive invariant.                                                *)
(***************************************************************************)

\* run_simulator flushes and drains only a fleet that has finished, and calls
\* its run good only then; the flush may wait with a batch while it flushes.
FlowOK ==
    /\ main \in {"flushing", "draining"} \/ outcome = "ok" =>
           \A b \in Batteries : ticks[b] = MaxTicks
    /\ main \in {"flushing", "draining"} => buffer = {} /\ \A b \in Batteries : held[b] = {}
    /\ main # "flushing" => held[Main] = {}
    /\ outcome = "none" <=> main \in {"running", "flushing", "draining"}

\* Whatever is on its way, counted or stored was made by a battery.
MadeOK ==
    /\ buffer \subseteq Produced
    /\ \A s \in Submitters : held[s] \subseteq Produced
    /\ \A k \in DOMAIN queue : queue[k] \subseteq Produced
    /\ \A w \in Workers : carried[w] \subseteq Produced
    /\ \A m \in wire : m.events \subseteq Produced
    /\ sent \subseteq Produced /\ dropped \subseteq Produced
    /\ stored \subseteq Produced

\* An event is in one place at most ...
OnlyBuffered(e) ==
    e \in buffer =>
        /\ \A s \in Submitters : e \notin held[s]
        /\ \A k \in DOMAIN queue : e \notin queue[k]
        /\ \A w \in Workers : e \notin carried[w]
        /\ e \notin sent /\ e \notin dropped

OnlyHeld(e) ==
    \A s \in Submitters : e \in held[s] =>
        /\ \A t \in Submitters : e \in held[t] => t = s
        /\ \A k \in DOMAIN queue : e \notin queue[k]
        /\ \A w \in Workers : e \notin carried[w]
        /\ e \notin sent /\ e \notin dropped

OnlyQueued(e) ==
    \A k \in DOMAIN queue : e \in queue[k] =>
        /\ \A j \in DOMAIN queue : e \in queue[j] => j = k
        /\ \A w \in Workers : e \notin carried[w]
        /\ e \notin sent /\ e \notin dropped

OnlyCarried(e) ==
    \A w \in Workers : e \in carried[w] =>
        /\ \A v \in Workers : e \in carried[v] => v = w
        /\ e \notin sent /\ e \notin dropped

InOnePlace(e) ==
    /\ OnlyBuffered(e) /\ OnlyHeld(e) /\ OnlyQueued(e) /\ OnlyCarried(e)
    /\ ~(e \in sent /\ e \in dropped)

\* ... and it is somewhere, as long as the workers live and the run goes on.
Somewhere(e) ==
    \/ e \in buffer
    \/ \E s \in Submitters : e \in held[s]
    \/ \E k \in DOMAIN queue : e \in queue[k]
    \/ \E w \in Workers : e \in carried[w]
    \/ e \in sent
    \/ e \in dropped

Undisturbed == ~ SomeWorkerDead /\ main \notin {"stopped", "ended"}

PlacesOK ==
    \A e \in Events :
        /\ InOnePlace(e)
        /\ e \in Produced /\ Undisturbed => Somewhere(e)

DeliveryInv == TypeInv /\ FlowOK /\ MadeOK /\ PlacesOK

LEMMA DeliveryInit == Init => DeliveryInv
<1> SUFFICES ASSUME Init PROVE DeliveryInv
  OBVIOUS
<1>1. DOMAIN queue = {}
  BY DEF Init
<1>2. Produced = {}
  BY DeliveryAssumption DEF Init, Produced, Events
<1>3. FlowOK
  BY DEF Init, FlowOK, Submitters
<1>4. MadeOK
  BY <1>1 DEF Init, MadeOK
<1>5. PlacesOK
  BY <1>1, <1>2 DEF Init, PlacesOK, InOnePlace, OnlyBuffered, OnlyHeld, OnlyQueued, OnlyCarried
<1> QED
  BY <1>3, <1>4, <1>5, TypeInit DEF DeliveryInv

\* What put_nowait does to the queue, and get.
Queues(batch) ==
    \E n \in Nat :
        /\ n \notin DOMAIN queue
        /\ DOMAIN queue' = DOMAIN queue \cup {n}
        /\ \A k \in DOMAIN queue : queue'[k] = queue[k]
        /\ queue'[n] = batch

Takes ==
    /\ DOMAIN queue \subseteq Nat /\ DOMAIN queue' \subseteq Nat
    /\ 1 \in DOMAIN queue /\ Head(queue) = queue[1]
    /\ \A k \in DOMAIN queue' : k + 1 \in DOMAIN queue /\ queue'[k] = queue[k + 1] /\ k + 1 # 1
    /\ \A k \in DOMAIN queue : k = 1 \/ (k - 1 \in DOMAIN queue' /\ queue'[k - 1] = queue[k])

LEMMA QueuesOne ==
    ASSUME TypeOK, NEW batch \in Batches, queue' = Append(queue, batch)
    PROVE  Queues(batch)
<1>1. queue \in Seq(Batches)
  BY DEF TypeOK
<1>2. /\ DOMAIN queue = 1..Len(queue)
      /\ DOMAIN queue' = 1..Len(queue) + 1
      /\ \A k \in DOMAIN queue : queue'[k] = queue[k]
      /\ queue'[Len(queue) + 1] = batch
      /\ Len(queue) \in Nat
  BY <1>1, AppendedQueue
<1>3. /\ Len(queue) + 1 \in Nat
      /\ Len(queue) + 1 \notin DOMAIN queue
      /\ DOMAIN queue' = DOMAIN queue \cup {Len(queue) + 1}
  BY <1>2
<1> QED
  BY <1>2, <1>3 DEF Queues

LEMMA TakesOne ==
    ASSUME TypeOK, queue # <<>>, queue' = Tail(queue)
    PROVE  Takes /\ Head(queue) \in Batches
<1>1. queue \in Seq(Batches)
  BY DEF TypeOK
<1>2. /\ Head(queue) \in Batches
      /\ Len(queue) \in Nat \ {0}
      /\ DOMAIN queue = 1..Len(queue)
      /\ DOMAIN queue' = 1..Len(queue) - 1
      /\ Head(queue) = queue[1]
      /\ \A k \in DOMAIN queue' : k + 1 \in DOMAIN queue /\ queue'[k] = queue[k + 1]
  BY <1>1, TakenQueue
<1>3. \A k \in DOMAIN queue : k = 1 \/ (k - 1 \in DOMAIN queue' /\ queue'[k - 1] = queue[k])
  BY <1>2
<1> QED
  BY <1>2, <1>3 DEF Takes

\* A batch handed to submit() is in the queue, or with its submitter.
LEMMA SubmitCases ==
    ASSUME TypeOK, NEW s \in Submitters, NEW batch \in Batches, Submit(s, batch)
    PROVE  \/ Queues(batch) /\ held' = held
           \/ queue' = queue /\ held' = [held EXCEPT ![s] = batch]
BY QueuesOne DEF Submit

-----------------------------------------------------------------------------
(***************************************************************************)
(* FlowOK.                                                                 *)
(***************************************************************************)

LEMMA FlowNext ==
    ASSUME TypeInv, FlowOK, Next
    PROVE  FlowOK'
<1> USE DEF FlowOK
<1>0. /\ held \in [Submitters -> Batches] /\ Main \in Submitters
      /\ ticks \in [Batteries -> 0..MaxTicks]
      /\ \A b \in Batteries : b \in Submitters /\ b # Main
  BY DeliveryAssumption DEF TypeInv, TypeOK, Submitters
<1>1. ASSUME NEW b \in Batteries, Produce(b) PROVE FlowOK'
  <2>1. outcome # "ok" /\ main \notin {"flushing", "draining"}
    BY <1>0, <1>1, DeliveryAssumption DEF Produce, FleetAlive
  <2>2. held'[Main] = held[Main]
    BY <1>0, <1>1 DEF Produce, Gather, Submit
  <2> QED
    BY <1>1, <2>1, <2>2 DEF Produce
<1>2. ASSUME NEW s \in Submitters, Put(s) PROVE FlowOK'
  BY <1>0, <1>2 DEF Put
<1>3. ASSUME NEW w \in Workers, Work(w) PROVE FlowOK'
  BY <1>3 DEF Work, Take, Timeout, Resend, production
<1>4. CASE Handle
  BY <1>4 DEF Handle, production
<1>5. CASE Flush
  <2>1. \A b \in Batteries : ticks[b] = MaxTicks /\ held[b] = {} /\ held'[b] = held[b]
    BY <1>0, <1>5 DEF Flush, FleetDone, Submit
  <2> QED
    BY <1>5, <2>1 DEF Flush
<1>6. CASE WorkerFailed \/ StartDrain
  BY <1>6 DEF WorkerFailed, StartDrain, production
<1>7. CASE Drain
  BY <1>7 DEF Drain, production
<1>8. CASE StopFleet
  BY <1>0, <1>8 DEF StopFleet
<1>9. CASE StopWorkers
  BY <1>9 DEF StopWorkers, production
<1> QED
  BY <1>1, <1>2, <1>3, <1>4, <1>5, <1>6, <1>7, <1>8, <1>9 DEF Next, RunSimulator

-----------------------------------------------------------------------------
(***************************************************************************)
(* MadeOK.                                                                 *)
(***************************************************************************)

\* Submitting a batch of events that were made.
LEMMA SubmitMade ==
    ASSUME TypeOK, NEW s \in Submitters, NEW batch \in Batches, Submit(s, batch),
           NEW made, batch \subseteq made,
           \A t \in Submitters : held[t] \subseteq made,
           \A k \in DOMAIN queue : queue[k] \subseteq made
    PROVE  /\ \A t \in Submitters : held'[t] \subseteq made
           /\ \A k \in DOMAIN queue' : queue'[k] \subseteq made
<1>1. CASE Queues(batch) /\ held' = held
  BY <1>1 DEF Queues
<1>2. CASE queue' = queue /\ held' = [held EXCEPT ![s] = batch]
  BY <1>2 DEF TypeOK
<1> QED
  BY <1>1, <1>2, SubmitCases

LEMMA MadeNext ==
    ASSUME TypeInv, MadeOK, Next
    PROVE  MadeOK'
<1> USE DEF MadeOK
<1>0. TypeOK
  BY DEF TypeInv
<1>1. ASSUME NEW b \in Batteries, Produce(b) PROVE MadeOK'
  <2> DEFINE new == buffer \cup {<<b, ticks[b] + 1>>}
  <2>1. /\ Produced \subseteq Produced'
        /\ new \subseteq Produced'
        /\ new \in Batches
        /\ b \in Submitters
    BY <1>0, <1>1, NewEvent DEF TypeOK, Batches, Submitters
  <2>2. /\ buffer' \subseteq Produced'
        /\ \A t \in Submitters : held'[t] \subseteq Produced'
        /\ \A k \in DOMAIN queue' : queue'[k] \subseteq Produced'
    <3>1. Gather(b, new)
      BY <1>1 DEF Produce
    <3>2. CASE Cardinality(new) < BatchSize
      BY <2>1, <3>1, <3>2 DEF Gather
    <3>3. CASE ~(Cardinality(new) < BatchSize)
      <4>1. buffer' = {} /\ Submit(b, new)
        BY <3>1, <3>3 DEF Gather
      <4>2. /\ \A t \in Submitters : held[t] \subseteq Produced'
            /\ \A k \in DOMAIN queue : queue[k] \subseteq Produced'
        BY <2>1
      <4> HIDE DEF new
      <4> QED
        BY <1>0, <2>1, <4>1, <4>2, SubmitMade
    <3> QED
      BY <3>2, <3>3
  <2> QED
    BY <1>1, <2>1, <2>2 DEF Produce, senders, counters
<1>2. ASSUME NEW s \in Submitters, Put(s) PROVE MadeOK'
  <2>1. Produced' = Produced /\ held[s] \in Batches /\ held \in [Submitters -> Batches]
    BY <1>0, <1>2, SameEvents DEF Put, TypeOK
  <2>2. Queues(held[s])
    BY <1>0, <1>2, <2>1, QueuesOne DEF Put
  <2>3. /\ \A t \in Submitters : held'[t] \subseteq Produced
        /\ \A k \in DOMAIN queue' : queue'[k] \subseteq Produced
    BY <1>2, <2>1, <2>2 DEF Put, Queues
  <2> QED
    BY <1>2, <2>1, <2>3 DEF Put, senders, counters
<1>3. ASSUME NEW w \in Workers, Take(w) PROVE MadeOK'
  <2>1. Produced' = Produced
    BY <1>3, SameEvents DEF Take, production
  <2>2. Takes
    BY <1>0, <1>3, TakesOne DEF Take
  <2>3. /\ Head(queue) \subseteq Produced
        /\ \A k \in DOMAIN queue' : queue'[k] \subseteq Produced
    BY <2>2 DEF Takes
  <2>4. \A m \in wire' : m.events \subseteq Produced
    BY <1>3, <2>3 DEF Take, Post
  <2>5. \A v \in Workers : carried'[v] \subseteq Produced
    BY <1>0, <1>3, <2>3 DEF Take, TypeOK
  <2> QED
    BY <1>3, <2>1, <2>3, <2>4, <2>5 DEF Take, production, counters
<1>4. ASSUME NEW w \in Workers, Timeout(w) PROVE MadeOK'
  <2>1. Produced' = Produced
    BY <1>4, SameEvents DEF Timeout, production
  <2>2. /\ \A v \in Workers : carried'[v] \subseteq Produced
        /\ sent' \subseteq Produced /\ dropped' \subseteq Produced
    BY <1>0, <1>4 DEF Timeout, AttemptFailed, BatchDone, counters, TypeOK
  <2> QED
    BY <1>4, <2>1, <2>2 DEF Timeout, production
<1>5. ASSUME NEW w \in Workers, Resend(w) PROVE MadeOK'
  <2>1. Produced' = Produced
    BY <1>5, SameEvents DEF Resend, production
  <2>2. \A m \in wire' : m.events \subseteq Produced
    BY <1>5 DEF Resend, Post
  <2> QED
    BY <1>5, <2>1, <2>2 DEF Resend, production, counters
<1>6. CASE Handle
  <2>1. Produced' = Produced
    BY <1>6, SameEvents DEF Handle, production
  <2>2. PICK m \in wire : wire' = wire \ {m} /\ (Accept(m) \/ Trouble(m) \/ Refuse(m))
    BY <1>6 DEF Handle
  <2>3. stored' \subseteq Produced
    BY <2>2, HandleCases
  <2>4. /\ \A v \in Workers : carried'[v] \subseteq Produced
        /\ sent' \subseteq Produced /\ dropped' \subseteq Produced
    <3>1. CASE NoAnswer
      BY <3>1 DEF NoAnswer, senders, counters
    <3>2. ASSUME NEW w \in Workers, Delivered(w) \/ AttemptFailed(w) \/ Refused(w)
          PROVE  /\ \A v \in Workers : carried'[v] \subseteq Produced
                 /\ sent' \subseteq Produced /\ dropped' \subseteq Produced
      BY <1>0, <3>2 DEF Delivered, AttemptFailed, Refused, BatchDone, counters, TypeOK
    <3> QED
      BY <2>2, <3>1, <3>2, HandleCases
  <2> QED
    BY <1>6, <2>1, <2>2, <2>3, <2>4 DEF Handle, production
<1>7. CASE Flush
  <2>1. Produced' = Produced
    BY <1>7, SameEvents DEF Flush
  <2>2. /\ \A t \in Submitters : held'[t] \subseteq Produced
        /\ \A k \in DOMAIN queue' : queue'[k] \subseteq Produced
    <3>1. CASE buffer = {}
      BY <1>7, <3>1 DEF Flush
    <3>2. CASE buffer # {}
      <4>1. Submit(Main, buffer) /\ Main \in Submitters /\ buffer \in Batches
        BY <1>0, <1>7, <3>2 DEF Flush, Submitters, TypeOK
      <4> QED
        BY <1>0, <4>1, SubmitMade
    <3> QED
      BY <3>1, <3>2
  <2> QED
    BY <1>7, <2>1, <2>2 DEF Flush, senders, counters
<1>8. CASE WorkerFailed \/ StartDrain \/ Drain
  BY <1>8, SameEvents DEF WorkerFailed, StartDrain, Drain, production, senders, counters
<1>9. CASE StopFleet
  BY <1>9, SameEvents DEF StopFleet, senders, counters
<1>10. CASE StopWorkers
  BY <1>10, SameEvents DEF StopWorkers, production, counters
<1> QED
  BY <1>1, <1>2, <1>3, <1>4, <1>5, <1>6, <1>7, <1>8, <1>9, <1>10 DEF Next, Work, RunSimulator

-----------------------------------------------------------------------------
(***************************************************************************)
(* PlacesOK: every step moves an event from one place to the next.         *)
(***************************************************************************)

PlacedAt(e) == InOnePlace(e) /\ (e \in Produced /\ Undisturbed => Somewhere(e))

\* Submitting a batch whose events are in no place, while the buffer is emptied.
LEMMA SubmitPlaces ==
    ASSUME TypeOK, NEW s \in Submitters, NEW batch \in Batches, Submit(s, batch),
           held[s] = {}, buffer' = {}, UNCHANGED <<carried, sent, dropped>>,
           NEW e \in Events, InOnePlace(e),
           e \in batch => /\ \A t \in Submitters : e \notin held[t]
                          /\ \A k \in DOMAIN queue : e \notin queue[k]
                          /\ \A w \in Workers : e \notin carried[w]
                          /\ e \notin sent /\ e \notin dropped
    PROVE  /\ InOnePlace(e)'
           /\ e \in batch => Somewhere(e)'
           /\ Somewhere(e) => Somewhere(e)' \/ e \in buffer
<1> USE DEF InOnePlace, OnlyBuffered, OnlyHeld, OnlyQueued, OnlyCarried, Somewhere
<1>1. CASE Queues(batch) /\ held' = held
  BY <1>1 DEF Queues
<1>2. CASE queue' = queue /\ held' = [held EXCEPT ![s] = batch]
  <2>1. held \in [Submitters -> Batches]
    BY DEF TypeOK
  <2> QED
    BY <1>2, <2>1
<1> QED
  BY <1>1, <1>2, SubmitCases

LEMMA ProducePlaces ==
    ASSUME DeliveryInv, NEW b \in Batteries, Produce(b), NEW e \in Events
    PROVE  PlacedAt(e)'
<1> DEFINE new == buffer \cup {<<b, ticks[b] + 1>>}
<1>1. /\ Produced' = Produced \cup {<<b, ticks[b] + 1>>}
      /\ <<b, ticks[b] + 1>> \notin Produced
      /\ new \in Batches
      /\ b \in Submitters
      /\ TypeOK
      /\ held[b] = {}
      /\ UNCHANGED <<carried, sent, dropped, main, wpc>>
      /\ Gather(b, new)
  BY NewEvent DEF DeliveryInv, TypeInv, TypeOK, Batches, Submitters, Produce, senders, counters
<1>2. InOnePlace(e) /\ (e \in Produced /\ Undisturbed => Somewhere(e))
  BY DEF DeliveryInv, PlacesOK
<1>3. e \in new => /\ \A t \in Submitters : e \notin held[t]
                   /\ \A k \in DOMAIN queue : e \notin queue[k]
                   /\ \A w \in Workers : e \notin carried[w]
                   /\ e \notin sent /\ e \notin dropped
  BY <1>1, <1>2 DEF DeliveryInv, MadeOK, InOnePlace, OnlyBuffered
<1>4. Undisturbed' = Undisturbed
  BY <1>1 DEF Undisturbed, SomeWorkerDead
<1>5. CASE Cardinality(new) < BatchSize
  <2>1. buffer' = new /\ UNCHANGED <<queue, held>>
    BY <1>1, <1>5 DEF Gather
  <2>2. InOnePlace(e)'
    BY <1>1, <1>2, <1>3, <2>1 DEF InOnePlace, OnlyBuffered, OnlyHeld, OnlyQueued, OnlyCarried
  <2>3. e \in Produced' /\ Undisturbed' => Somewhere(e)'
    BY <1>1, <1>2, <1>4, <2>1 DEF Somewhere
  <2> QED
    BY <2>2, <2>3 DEF PlacedAt
<1>6. CASE ~(Cardinality(new) < BatchSize)
  <2>1. buffer' = {} /\ Submit(b, new)
    BY <1>1, <1>6 DEF Gather
  <2>2. e \in buffer => e \in new
    OBVIOUS
  <2>3. e \in Produced' /\ e \notin Produced => e \in new
    BY <1>1
  <2> HIDE DEF new
  <2>4. /\ InOnePlace(e)'
        /\ e \in new => Somewhere(e)'
        /\ Somewhere(e) => Somewhere(e)' \/ e \in buffer
    BY <1>1, <1>2, <1>3, <2>1, SubmitPlaces
  <2> QED
    BY <1>2, <1>4, <2>2, <2>3, <2>4 DEF PlacedAt
<1> QED
  BY <1>5, <1>6

LEMMA PutPlaces ==
    ASSUME DeliveryInv, NEW s \in Submitters, Put(s), NEW e \in Events
    PROVE  PlacedAt(e)'
<1>1. TypeOK /\ held \in [Submitters -> Batches] /\ held[s] \in Batches
  BY DEF DeliveryInv, TypeInv, TypeOK
<1>2. Queues(held[s])
  BY <1>1, QueuesOne DEF Put
<1>3. InOnePlace(e) /\ (e \in Produced /\ Undisturbed => Somewhere(e))
  BY DEF DeliveryInv, PlacesOK
<1>4. /\ UNCHANGED <<buffer, carried, sent, dropped, main, wpc, ticks>>
      /\ held'[s] = {}
      /\ \A t \in Submitters : t # s => held'[t] = held[t]
  BY <1>1 DEF Put, senders, counters
<1>5. InOnePlace(e)'
  BY <1>2, <1>3, <1>4 DEF Queues, InOnePlace, OnlyBuffered, OnlyHeld, OnlyQueued, OnlyCarried
<1>6. Somewhere(e) => Somewhere(e)'
  BY <1>2, <1>4 DEF Queues, Somewhere
<1> QED
  BY <1>3, <1>4, <1>5, <1>6, SameEvents DEF PlacedAt, Undisturbed, SomeWorkerDead

LEMMA TakePlaces ==
    ASSUME DeliveryInv, NEW w \in Workers, Take(w), NEW e \in Events
    PROVE  PlacedAt(e)'
<1>1. TypeOK /\ carried \in [Workers -> Batches] /\ wpc \in [Workers -> Pcs]
  BY DEF DeliveryInv, TypeInv, TypeOK, Pcs
<1>2. Takes
  BY <1>1, TakesOne DEF Take
<1>3. InOnePlace(e) /\ (e \in Produced /\ Undisturbed => Somewhere(e))
  BY DEF DeliveryInv, PlacesOK
<1>4. /\ UNCHANGED <<buffer, held, sent, dropped, main, ticks>>
      /\ carried[w] = {}
      /\ carried'[w] = queue[1]
      /\ \A v \in Workers : v # w => carried'[v] = carried[v]
  BY <1>1, <1>2 DEF DeliveryInv, TypeInv, AttemptOK, Take, Takes, production, counters
<1>5. InOnePlace(e)'
  <2>1. OnlyBuffered(e)' /\ OnlyHeld(e)'
    BY <1>2, <1>3, <1>4 DEF Takes, InOnePlace, OnlyBuffered, OnlyHeld
  <2>2. OnlyQueued(e)'
    BY <1>2, <1>3, <1>4 DEF Takes, InOnePlace, OnlyQueued
  <2>3. OnlyCarried(e)'
    BY <1>2, <1>3, <1>4 DEF Takes, InOnePlace, OnlyQueued, OnlyCarried
  <2> QED
    BY <1>3, <1>4, <2>1, <2>2, <2>3 DEF InOnePlace
<1>6. Somewhere(e) => Somewhere(e)'
  <2>1. ASSUME NEW k \in DOMAIN queue, e \in queue[k] PROVE Somewhere(e)'
    <3>1. CASE k = 1
      BY <1>4, <2>1, <3>1 DEF Somewhere
    <3>2. CASE k - 1 \in DOMAIN queue' /\ queue'[k - 1] = queue[k]
      BY <2>1, <3>2 DEF Somewhere
    <3> QED
      BY <1>2, <3>1, <3>2 DEF Takes
  <2>2. ASSUME NEW v \in Workers, e \in carried[v] PROVE Somewhere(e)'
    BY <1>4, <2>2 DEF Somewhere
  <2> QED
    BY <1>4, <2>1, <2>2 DEF Somewhere
<1>7. Undisturbed' => Undisturbed
  BY <1>1, <1>4 DEF Take, Undisturbed, SomeWorkerDead
<1> QED
  BY <1>3, <1>4, <1>5, <1>6, <1>7, SameEvents DEF PlacedAt

\* The end of an attempt: the batch stays with its worker, is counted, or is
\* refused with the death of the worker.
LEMMA AnswerPlaces ==
    ASSUME DeliveryInv, NEW w \in Workers, wpc[w] = "sending",
           Delivered(w) \/ AttemptFailed(w) \/ Refused(w),
           UNCHANGED <<ticks, buffer, held, queue, main>>,
           NEW e \in Events
    PROVE  PlacedAt(e)'
<1>1. carried \in [Workers -> Batches] /\ wpc \in [Workers -> Pcs]
  BY DEF DeliveryInv, TypeInv, TypeOK, Pcs
<1>2. InOnePlace(e) /\ (e \in Produced /\ Undisturbed => Somewhere(e))
  BY DEF DeliveryInv, PlacesOK
<1>3. \/ UNCHANGED <<carried, sent, dropped>>
      \/ /\ carried'[w] = {} /\ \A v \in Workers : v # w => carried'[v] = carried[v]
         /\ \/ sent' = sent \cup carried[w] /\ dropped' = dropped
            \/ dropped' = dropped \cup carried[w] /\ sent' = sent
            \/ sent' = sent /\ dropped' = dropped /\ wpc'[w] = "dead"
  BY <1>1 DEF Delivered, AttemptFailed, Refused, BatchDone, counters
<1>4. Undisturbed' => Undisturbed
  BY <1>1 DEF Undisturbed, SomeWorkerDead, Delivered, AttemptFailed, Refused, BatchDone
<1>5. InOnePlace(e)'
  BY <1>2, <1>3 DEF InOnePlace, OnlyBuffered, OnlyHeld, OnlyQueued, OnlyCarried
<1>6. Somewhere(e) /\ Undisturbed' => Somewhere(e)'
  BY <1>3 DEF Somewhere, Undisturbed, SomeWorkerDead
<1> QED
  BY <1>2, <1>4, <1>5, <1>6, SameEvents DEF PlacedAt

LEMMA FlushPlaces ==
    ASSUME DeliveryInv, Flush, NEW e \in Events
    PROVE  PlacedAt(e)'
<1>1. /\ TypeOK
      /\ UNCHANGED <<carried, sent, dropped, wpc, ticks>>
      /\ buffer' = {}
      /\ main = "running" /\ main' = "flushing"
      /\ held[Main] = {}
  BY DEF DeliveryInv, TypeInv, FlowOK, Flush, senders, counters
<1>2. InOnePlace(e) /\ (e \in Produced /\ Undisturbed => Somewhere(e))
  BY DEF DeliveryInv, PlacesOK
<1>3. Undisturbed' = Undisturbed /\ Produced' = Produced
  BY <1>1, SameEvents DEF Undisturbed, SomeWorkerDead
<1>4. CASE buffer = {}
  <2>1. UNCHANGED <<queue, held>>
    BY <1>4 DEF Flush
  <2> QED
    BY <1>1, <1>2, <1>3, <1>4, <2>1
       DEF PlacedAt, InOnePlace, OnlyBuffered, OnlyHeld, OnlyQueued, OnlyCarried, Somewhere
<1>5. CASE buffer # {}
  <2>1. Main \in Submitters /\ buffer \in Batches /\ Submit(Main, buffer)
    BY <1>1, <1>5 DEF Flush, Submitters, TypeOK
  <2>2. e \in buffer => /\ \A t \in Submitters : e \notin held[t]
                        /\ \A k \in DOMAIN queue : e \notin queue[k]
                        /\ \A w \in Workers : e \notin carried[w]
                        /\ e \notin sent /\ e \notin dropped
    BY <1>2 DEF InOnePlace, OnlyBuffered
  <2>3. /\ InOnePlace(e)'
        /\ e \in buffer => Somewhere(e)'
        /\ Somewhere(e) => Somewhere(e)' \/ e \in buffer
    BY <1>1, <1>2, <2>1, <2>2, SubmitPlaces
  <2> QED
    BY <1>2, <1>3, <2>3 DEF PlacedAt
<1> QED
  BY <1>4, <1>5

LEMMA PlacesNext ==
    ASSUME DeliveryInv, Next
    PROVE  PlacesOK'
<1> SUFFICES ASSUME NEW e \in Events PROVE PlacedAt(e)'
  BY DEF PlacedAt, PlacesOK
<1>0. InOnePlace(e) /\ (e \in Produced /\ Undisturbed => Somewhere(e))
  BY DEF DeliveryInv, PlacesOK
<1>1. ASSUME NEW w \in Workers, Timeout(w) PROVE PlacedAt(e)'
  <2>1. /\ wpc[w] = "sending" /\ AttemptFailed(w)
        /\ UNCHANGED <<ticks, buffer, held, queue, main>>
    BY <1>1 DEF Timeout, production
  <2> QED
    BY <2>1, AnswerPlaces
<1>2. ASSUME NEW w \in Workers, Resend(w) PROVE PlacedAt(e)'
  <2>1. /\ UNCHANGED <<ticks, buffer, held, queue, main, carried, sent, dropped>>
        /\ Undisturbed' => Undisturbed
    BY <1>2 DEF Resend, production, counters, DeliveryInv, TypeInv, TypeOK, Undisturbed,
                SomeWorkerDead
  <2> QED
    BY <1>0, <2>1, SameEvents
       DEF PlacedAt, InOnePlace, OnlyBuffered, OnlyHeld, OnlyQueued, OnlyCarried, Somewhere
<1>3. CASE Handle
  <2>1. PICK m \in wire : Accept(m) \/ Trouble(m) \/ Refuse(m)
    BY <1>3 DEF Handle
  <2>2. UNCHANGED <<ticks, buffer, held, queue, main>>
    BY <1>3 DEF Handle, production
  <2>3. CASE NoAnswer
    BY <1>0, <2>2, <2>3, SameEvents
       DEF NoAnswer, senders, counters, Undisturbed, SomeWorkerDead,
           PlacedAt, InOnePlace, OnlyBuffered, OnlyHeld, OnlyQueued, OnlyCarried, Somewhere
  <2>4. CASE Awaited(m) /\ (Delivered(m.worker) \/ AttemptFailed(m.worker) \/ Refused(m.worker))
    <3>1. m.worker \in Workers /\ wpc[m.worker] = "sending"
      BY <2>4 DEF Awaited, DeliveryInv, TypeInv, TypeOK
    <3> QED
      BY <2>2, <2>4, <3>1, AnswerPlaces
  <2> QED
    BY <2>1, <2>3, <2>4, HandleCases DEF DeliveryInv
<1>4. CASE WorkerFailed \/ StartDrain \/ Drain
  <2>1. UNCHANGED <<ticks, buffer, held, queue, carried, sent, dropped, wpc>>
    BY <1>4 DEF WorkerFailed, StartDrain, Drain, production, senders, counters
  <2>2. Undisturbed' => Undisturbed
    BY <1>4, <2>1 DEF WorkerFailed, StartDrain, Drain, Undisturbed, SomeWorkerDead
  <2> QED
    BY <1>0, <2>1, <2>2, SameEvents
       DEF PlacedAt, InOnePlace, OnlyBuffered, OnlyHeld, OnlyQueued, OnlyCarried, Somewhere
<1>5. CASE StopFleet
  <2>1. UNCHANGED <<buffer, queue, carried, sent, dropped>> /\ ~ Undisturbed'
    BY <1>5 DEF StopFleet, senders, counters, Undisturbed
  <2>2. \A s \in Submitters : held'[s] = {}
    BY <1>5 DEF StopFleet
  <2> QED
    BY <1>0, <2>1, <2>2
       DEF PlacedAt, InOnePlace, OnlyBuffered, OnlyHeld, OnlyQueued, OnlyCarried
<1>6. CASE StopWorkers
  <2>1. UNCHANGED <<buffer, held, queue, sent, dropped>> /\ ~ Undisturbed'
    BY <1>6 DEF StopWorkers, production, counters, Undisturbed
  <2>2. \A w \in Workers : carried'[w] = {}
    BY <1>6 DEF StopWorkers
  <2> QED
    BY <1>0, <2>1, <2>2
       DEF PlacedAt, InOnePlace, OnlyBuffered, OnlyHeld, OnlyQueued, OnlyCarried
<1> QED
  BY <1>1, <1>2, <1>3, <1>4, <1>5, <1>6, ProducePlaces, PutPlaces, TakePlaces, FlushPlaces
     DEF Next, Work, RunSimulator

LEMMA DeliveryNext ==
    ASSUME DeliveryInv, [Next]_vars
    PROVE  DeliveryInv'
<1>1. CASE UNCHANGED vars
  BY <1>1, TypeNext, SameEvents
     DEF vars, production, senders, counters, DeliveryInv, FlowOK, MadeOK, PlacesOK, InOnePlace,
         OnlyBuffered, OnlyHeld, OnlyQueued, OnlyCarried, Somewhere, Undisturbed, SomeWorkerDead
<1>2. CASE Next
  BY <1>2, TypeNext, FlowNext, MadeNext, PlacesNext DEF DeliveryInv
<1> QED
  BY <1>1, <1>2

LEMMA DeliveryInvariant == Spec => []DeliveryInv
  BY DeliveryInit, DeliveryNext, PTL DEF Spec

-----------------------------------------------------------------------------
(***************************************************************************)
(* NothingLost.                                                            *)
(***************************************************************************)

LEMMA PlacesAre ==
    ASSUME NEW e, NEW p
    PROVE  p \in Places(e) <=>
             \/ p = <<"buffer", buffer>> /\ e \in buffer
             \/ \E s \in Submitters : p = <<"held", s>> /\ e \in held[s]
             \/ \E k \in DOMAIN queue : p = <<"queue", k>> /\ e \in queue[k]
             \/ \E w \in Workers : p = <<"carried", w>> /\ e \in carried[w]
             \/ p = <<"counted", "sent">> /\ e \in sent
             \/ p = <<"counted", "dropped">> /\ e \in dropped
BY DEF Places

LEMMA AtMostOne ==
    ASSUME NEW S, \A p, q \in S : p = q
    PROVE  Cardinality(S) <= 1
<1>1. CASE S = {}
  BY <1>1, FS_EmptySet
<1>2. ASSUME NEW p \in S PROVE Cardinality(S) <= 1
  <2>1. S = {p}
    OBVIOUS
  <2>2. Cardinality({p}) = 1
    BY FS_Singleton
  <2> QED
    BY <2>1, <2>2
<1> QED
  BY <1>1, <1>2

LEMMA OnePlace ==
    ASSUME NEW e, InOnePlace(e)
    PROVE  Cardinality(Places(e)) <= 1
<1>1. ASSUME NEW p \in Places(e), NEW q \in Places(e) PROVE p = q
  <2> USE DEF InOnePlace, OnlyBuffered, OnlyHeld, OnlyQueued, OnlyCarried
  <2>1. CASE e \in buffer
    BY <2>1, PlacesAre
  <2>2. ASSUME NEW s \in Submitters, e \in held[s] PROVE p = q
    BY <2>2, PlacesAre
  <2>3. ASSUME NEW k \in DOMAIN queue, e \in queue[k] PROVE p = q
    BY <2>3, PlacesAre
  <2>4. ASSUME NEW w \in Workers, e \in carried[w] PROVE p = q
    BY <2>4, PlacesAre
  <2>5. CASE e \in sent \/ e \in dropped
    BY <2>5, PlacesAre
  <2> QED
    BY <2>1, <2>2, <2>3, <2>4, <2>5, PlacesAre
<1> QED
  BY <1>1, AtMostOne

\* However ticks, flushes, waits and retries interleave, no event is in two
\* places, and none is in none until a worker dies or the run is stopped
\* (batching.py, "lost or duplicated"; delivery.py, "dropped silently").
THEOREM NothingLostHolds == Spec => []NothingLost
<1>1. DeliveryInv => NothingLost
  <2> SUFFICES ASSUME DeliveryInv, NEW e \in Produced
               PROVE  /\ Cardinality(Places(e)) <= 1
                      /\ Undisturbed => Places(e) # {}
    BY DEF NothingLost, Undisturbed
  <2>1. InOnePlace(e) /\ (Undisturbed => Somewhere(e))
    BY DEF DeliveryInv, PlacesOK, Produced
  <2>2. Somewhere(e) => Places(e) # {}
    BY PlacesAre DEF Somewhere
  <2> QED
    BY <2>1, <2>2, OnePlace
<1> QED
  BY <1>1, DeliveryInvariant, PTL

-----------------------------------------------------------------------------
(***************************************************************************)
(* The refinement: what each step is in EventDelivery.                     *)
(***************************************************************************)

LEMMA PromiseInit == Init => Promise!Init
  BY DeliveryAssumption DEF Init, Promise!Init, Produced, Events

\* Nothing the promise is about has changed.
Stutters == UNCHANGED <<Produced, stored, sent, dropped, outcome>>

LEMMA SomeStored ==
    ASSUME NEW made, NEW T \in SUBSET made, stored' \in {stored, stored \cup T}
    PROVE  \E S \in SUBSET made : stored' = stored \cup S
<1>1. CASE stored' = stored \cup T
  BY <1>1
<1>2. CASE stored' = stored
  <2>1. {} \in SUBSET made /\ stored' = stored \cup {}
    BY <1>2
  <2> QED
    BY <2>1
<1> QED
  BY <1>1, <1>2

\* A tick makes an event, and only in a run that has not ended well.
LEMMA ProduceMakes ==
    ASSUME DeliveryInv, NEW b \in Batteries, Produce(b)
    PROVE  Promise!Make
<1>1. outcome # "ok"
  BY DeliveryAssumption DEF DeliveryInv, FlowOK, TypeInv, TypeOK, Produce
<1> QED
  BY <1>1, NewEvent DEF DeliveryInv, TypeInv, Promise!Make, Produce, counters

\* A batch that a worker carries is not settled.
LEMMA CarriedUnsettled ==
    ASSUME DeliveryInv, NEW w \in Workers
    PROVE  carried[w] \subseteq Promise!Unsettled
<1> SUFFICES ASSUME NEW e \in carried[w] PROVE e \in Promise!Unsettled
  OBVIOUS
<1>1. e \in Produced /\ e \in Events
  BY DEF DeliveryInv, MadeOK, Produced
<1> QED
  BY <1>1 DEF DeliveryInv, PlacesOK, InOnePlace, OnlyCarried, Promise!Unsettled

\* The last attempt of a batch settles it as dropped.
LEMMA FailureSettles ==
    ASSUME DeliveryInv, NEW w \in Workers, AttemptFailed(w), UNCHANGED <<ticks, outcome>>,
           stored' \in {stored, stored \cup carried[w]}
    PROVE  Promise!StoreSome \/ Promise!Settle
<1>0. Produced' = Produced /\ carried[w] \in SUBSET Produced
  BY SameEvents DEF DeliveryInv, MadeOK
<1>1. CASE UNCHANGED counters
  <2>1. \E S \in SUBSET Produced : stored' = stored \cup S
    BY <1>0, SomeStored
  <2> QED
    BY <1>0, <1>1, <2>1 DEF Promise!StoreSome, counters
<1>2. CASE dropped' = dropped \cup carried[w] /\ UNCHANGED sent
  BY <1>0, <1>2, CarriedUnsettled DEF Promise!Settle
<1> QED
  BY <1>1, <1>2 DEF AttemptFailed

\* A request that is handled stores its events, whether or not its worker hears
\* of it; the worker that does settles exactly what was stored.
LEMMA HandlePromised ==
    ASSUME DeliveryInv, Handle
    PROVE  Promise!StoreSome \/ Promise!Settle
<1>1. PICK m \in wire : Accept(m) \/ Trouble(m) \/ Refuse(m)
  BY DEF Handle
<1>2. /\ Produced' = Produced
      /\ m.events \in SUBSET Produced
      /\ UNCHANGED <<ticks, outcome>>
      /\ m.worker \in Workers
      /\ stored' \in {stored, stored \cup m.events}
  BY <1>1, SameEvents, HandleCases DEF Handle, production, DeliveryInv, MadeOK
<1>3. CASE UNCHANGED counters
  <2>1. \E S \in SUBSET Produced : stored' = stored \cup S
    BY <1>2, SomeStored
  <2> QED
    BY <1>2, <1>3, <2>1 DEF Promise!StoreSome, counters
<1>4. CASE Awaited(m) /\ Delivered(m.worker) /\ stored' = stored \cup m.events
  <2>1. carried[m.worker] = m.events /\ m.events \in SUBSET Promise!Unsettled
    BY <1>2, <1>4, CarriedUnsettled DEF Awaited
  <2>2. sent' = sent \cup m.events /\ UNCHANGED dropped
    BY <1>4, <2>1 DEF Delivered
  <2> QED
    BY <1>2, <1>4, <2>1, <2>2 DEF Promise!Settle
<1>5. CASE Awaited(m) /\ AttemptFailed(m.worker)
  BY <1>2, <1>5, FailureSettles DEF Awaited
<1> QED
  BY <1>1, <1>3, <1>4, <1>5, HandleCases DEF DeliveryInv, NoAnswer, Refused

\* A run that is called good has settled every event: nothing is left in the
\* buffer or with a submitter when the drain begins, the queue and the workers
\* are empty when it ends, and nothing was lost on the way.
LEMMA DrainSettled ==
    ASSUME DeliveryInv, Drain, ~ SomeWorkerDead
    PROVE  Promise!Unsettled = {}
<1>1. /\ main = "draining"
      /\ queue = <<>>
      /\ \A w \in Workers : carried[w] = {}
      /\ buffer = {}
      /\ \A s \in Submitters : held[s] = {}
  BY DEF Drain, Joined, DeliveryInv, FlowOK, Submitters
<1>2. ASSUME NEW e \in Produced PROVE e \in sent \/ e \in dropped
  <2>1. Somewhere(e)
    BY <1>1 DEF DeliveryInv, PlacesOK, Produced, Undisturbed
  <2> QED
    BY <1>1, <2>1 DEF Somewhere
<1> QED
  BY <1>2 DEF Promise!Unsettled

LEMMA RunSimulatorPromised ==
    ASSUME DeliveryInv, RunSimulator
    PROVE  Promise!End \/ Stutters
<1>0. Produced' = Produced /\ UNCHANGED <<stored, sent, dropped>>
  BY SameEvents DEF RunSimulator, Flush, WorkerFailed, StartDrain, Drain, StopFleet, StopWorkers,
                    production, counters
<1>1. CASE Drain
  <2>1. outcome = "none"
    BY <1>1 DEF Drain, DeliveryInv, FlowOK
  <2> QED
    BY <1>0, <1>1, <2>1, DrainSettled DEF Drain, Promise!End
<1>2. CASE WorkerFailed
  <2>1. outcome = "none" /\ outcome' = "error"
    BY <1>2 DEF WorkerFailed, DeliveryInv, FlowOK
  <2> QED
    BY <1>0, <2>1 DEF Promise!End
<1>3. CASE Flush \/ StartDrain \/ StopFleet \/ StopWorkers
  BY <1>0, <1>3 DEF Flush, StartDrain, StopFleet, StopWorkers, Stutters
<1> QED
  BY <1>1, <1>2, <1>3 DEF RunSimulator

LEMMA PromiseNext ==
    ASSUME DeliveryInv, [Next]_vars
    PROVE  [Promise!Next]_Promise!promised
<1> SUFFICES Promise!Next \/ Stutters
  BY DEF Stutters, Promise!promised
<1>1. CASE UNCHANGED vars
  BY <1>1, SameEvents DEF vars, production, counters, Stutters
<1>2. ASSUME NEW b \in Batteries, Produce(b) PROVE Promise!Next
  BY <1>2, ProduceMakes DEF Promise!Next
<1>3. ASSUME NEW s \in Submitters, Put(s) PROVE Stutters
  BY <1>3, SameEvents DEF Put, counters, Stutters
<1>4. ASSUME NEW w \in Workers, Take(w) \/ Resend(w) PROVE Stutters
  BY <1>4, SameEvents DEF Take, Resend, production, counters, Stutters
<1>5. ASSUME NEW w \in Workers, Timeout(w) PROVE Promise!Next
  BY <1>5, FailureSettles DEF Timeout, production, Promise!Next
<1>6. CASE Handle
  BY <1>6, HandlePromised DEF Promise!Next
<1>7. CASE RunSimulator
  BY <1>7, RunSimulatorPromised DEF Promise!Next
<1> QED
  BY <1>1, <1>2, <1>3, <1>4, <1>5, <1>6, <1>7 DEF Next, Work

\* The delivery implements EventDelivery: only stored events are confirmed,
\* each is settled once, and a run is called good only when all are settled
\* (delivery.py, drain and batches_sent).
THEOREM DeliveryKeepsItsPromise == Spec => DeliveryPromise
<1>1. DeliveryInv /\ [Next]_vars => [Promise!Next]_Promise!promised
  BY PromiseNext
<1> QED
  BY <1>1, PromiseInit, DeliveryInvariant, PTL DEF Spec, DeliveryPromise, Promise!Spec

-----------------------------------------------------------------------------
(***************************************************************************)
(* BoundedMemory.                                                          *)
(***************************************************************************)

Sized(B, n) == IsFiniteSet(B) /\ Cardinality(B) <= n

LEMMA SizedEmpty ==
    ASSUME NEW n \in Nat
    PROVE  Sized({}, n)
BY FS_EmptySet DEF Sized

\* At most n things can be numbered with 1..n.
LEMMA Numbered ==
    ASSUME NEW B, NEW n \in Nat, Sized(B, n)
    PROVE  \E g \in [B -> 1..n] : \A x, y \in B : g[x] = g[y] => x = y
<1>1. Cardinality(B) \in Nat /\ ExistsBijection(1..Cardinality(B), B)
  BY FS_CardinalityType DEF Sized
<1>2. PICK g \in Bijection(B, 1..Cardinality(B)) : TRUE
  BY <1>1, Fun_ExistsBijSymmetric DEF ExistsBijection
<1>3. /\ g \in [B -> 1..Cardinality(B)]
      /\ \A x, y \in B : g[x] = g[y] => x = y
  BY <1>2 DEF Bijection, Injection, IsInjective
<1>4. g \in [B -> 1..n]
  <2>1. 1..Cardinality(B) \subseteq 1..n
    BY <1>1 DEF Sized
  <2> QED
    BY <1>3, <2>1
<1> QED
  BY <1>3, <1>4

\* As many batches as I names, of n events each.
LEMMA BatchesSized ==
    ASSUME NEW I, IsFiniteSet(I), NEW n \in Nat, NEW batch,
           \A i \in I : Sized(batch[i], n)
    PROVE  /\ Cardinality(I) \in Nat
           /\ Sized(UNION {batch[i] : i \in I}, Cardinality(I) * n)
<1> DEFINE U == UNION {batch[i] : i \in I}
           At(x) == CHOOSE i \in I : x \in batch[i]
           Num(i) == CHOOSE g \in [batch[i] -> 1..n] :
                         \A x, y \in batch[i] : g[x] = g[y] => x = y
           cell == [x \in U |-> <<At(x), Num(At(x))[x]>>]
<1>1. \A x \in U : At(x) \in I /\ x \in batch[At(x)]
  OBVIOUS
<1>2. \A i \in I : /\ Num(i) \in [batch[i] -> 1..n]
                   /\ \A x, y \in batch[i] : Num(i)[x] = Num(i)[y] => x = y
  <2> TAKE i \in I
  <2>1. \E g \in [batch[i] -> 1..n] : \A x, y \in batch[i] : g[x] = g[y] => x = y
    BY Numbered
  <2> QED
    BY <2>1
<1> HIDE DEF At, Num
<1>3. cell \in [U -> I \X (1..n)]
  BY <1>1, <1>2
<1>4. \A x, y \in U : cell[x] = cell[y] => x = y
  <2> SUFFICES ASSUME NEW x \in U, NEW y \in U, cell[x] = cell[y] PROVE x = y
    OBVIOUS
  <2>1. At(x) = At(y) /\ Num(At(x))[x] = Num(At(y))[y]
    OBVIOUS
  <2> QED
    BY <1>1, <1>2, <2>1
<1> HIDE DEF U, cell
<1>5. cell \in Injection(U, I \X (1..n))
  <2>1. DOMAIN cell = U
    BY <1>3
  <2> QED
    BY <1>3, <1>4, <2>1 DEF Injection, IsInjective
<1>6. /\ IsFiniteSet(1..n) /\ Cardinality(1..n) = n
      /\ Cardinality(I) \in Nat
  <2>1. IsFiniteSet(1..n) /\ Cardinality(1..n) = IF 1 > n THEN 0 ELSE n - 1 + 1
    BY FS_Interval
  <2>2. Cardinality(I) \in Nat
    BY FS_CardinalityType
  <2> QED
    BY <2>1, <2>2
<1>7. /\ IsFiniteSet(I \X (1..n))
      /\ Cardinality(I \X (1..n)) = Cardinality(I) * n
  <2>1. /\ IsFiniteSet(I \X (1..n))
        /\ Cardinality(I \X (1..n)) = Cardinality(I) * Cardinality(1..n)
    BY <1>6, FS_Product
  <2> QED
    BY <2>1, <1>6
<1>8. Sized(U, Cardinality(I) * n)
  <2>1. IsFiniteSet(U) /\ Cardinality(U) <= Cardinality(I \X (1..n))
    BY <1>5, <1>7, FS_Injection
  <2> QED
    BY <2>1, <1>7 DEF Sized
<1> QED
  BY <1>6, <1>8 DEF U

LEMMA SizedUnion ==
    ASSUME NEW A, NEW B, NEW a \in Nat, NEW b \in Nat, Sized(A, a), Sized(B, b)
    PROVE  Sized(A \cup B, a + b)
<1>1. /\ IsFiniteSet(A \cup B)
      /\ Cardinality(A \cup B) = Cardinality(A) + Cardinality(B) - Cardinality(A \cap B)
      /\ Cardinality(A \cup B) \in Nat
  BY FS_Union, FS_CardinalityType DEF Sized
<1>2. Cardinality(A) \in Nat /\ Cardinality(B) \in Nat /\ Cardinality(A \cap B) \in Nat
  BY FS_CardinalityType, FS_Intersection DEF Sized
<1> QED
  BY <1>1, <1>2 DEF Sized

\* A battery gathers less than a batch, hands over a full one, and the queue
\* has no more places than QUEUE_MAX_BATCHES; the flush waits with a partial one.
SizesOK ==
    /\ Sized(buffer, BatchSize - 1)
    /\ Sized(held[Main], BatchSize - 1)
    /\ \A s \in Submitters : Sized(held[s], BatchSize)
    /\ \A k \in DOMAIN queue : Sized(queue[k], BatchSize)
    /\ \A w \in Workers : Sized(carried[w], BatchSize)
    /\ Len(queue) <= MaxBatches

LEMMA SizesInit == Init => SizesOK
<1> SUFFICES ASSUME Init PROVE SizesOK
  OBVIOUS
<1>1. Sized({}, BatchSize - 1) /\ Sized({}, BatchSize)
  BY SizedEmpty, DeliveryAssumption
<1>2. Len(queue) = 0 /\ DOMAIN queue = {} /\ Main \in Submitters
  BY DEF Init, Submitters
<1> QED
  BY <1>1, <1>2, DeliveryAssumption DEF Init, SizesOK

\* Submitting a batch of that size.
LEMMA SubmitSizes ==
    ASSUME TypeInv, SizesOK, NEW s \in Submitters, NEW batch \in Batches, Submit(s, batch),
           Sized(batch, IF s = Main THEN BatchSize - 1 ELSE BatchSize)
    PROVE  /\ Sized(held'[Main], BatchSize - 1)
           /\ \A t \in Submitters : Sized(held'[t], BatchSize)
           /\ \A k \in DOMAIN queue' : Sized(queue'[k], BatchSize)
           /\ Len(queue') <= MaxBatches
<1>0. TypeOK /\ held \in [Submitters -> Batches] /\ queue \in Seq(Batches)
  BY DEF TypeInv, TypeOK
<1>1. Sized(batch, BatchSize)
  <2>1. IsFiniteSet(batch) /\ Cardinality(batch) \in Nat
    BY FS_CardinalityType DEF Sized
  <2> QED
    BY <2>1, DeliveryAssumption DEF Sized
<1>2. CASE ~ QueueFull /\ queue' = Append(queue, batch) /\ UNCHANGED held
  <2>1. Queues(batch)
    BY <1>0, <1>2, QueuesOne
  <2>2. Len(queue') = Len(queue) + 1 /\ Len(queue) \in Nat
    BY <1>0, <1>2, AppendedQueue
  <2>3. Len(queue') <= MaxBatches
    BY <1>2, <2>2, DeliveryAssumption DEF QueueFull
  <2> QED
    BY <1>1, <1>2, <2>1, <2>3 DEF SizesOK, Queues
<1>3. CASE held' = [held EXCEPT ![s] = batch] /\ UNCHANGED queue
  BY <1>0, <1>1, <1>3 DEF SizesOK
<1> QED
  BY <1>2, <1>3 DEF Submit

LEMMA ProduceSizes ==
    ASSUME TypeInv, SizesOK, NEW b \in Batteries, Produce(b)
    PROVE  SizesOK'
<1> DEFINE new == buffer \cup {<<b, ticks[b] + 1>>}
<1>1. /\ new \in Batches /\ b \in Submitters /\ b # Main
      /\ Gather(b, new)
      /\ UNCHANGED carried
  BY NewEvent, DeliveryAssumption
     DEF TypeInv, TypeOK, Batches, Submitters, Produce, senders
<1>2. /\ IsFiniteSet(new) /\ Cardinality(new) \in Nat
      /\ Cardinality(new) <= BatchSize
  <2>1. /\ IsFiniteSet(buffer) /\ Cardinality(buffer) \in Nat
        /\ Cardinality(buffer) <= BatchSize - 1
    BY FS_CardinalityType DEF SizesOK, Sized
  <2>2. /\ IsFiniteSet(new)
        /\ Cardinality(new) \in {Cardinality(buffer), Cardinality(buffer) + 1}
    BY <2>1, FS_AddElement
  <2> HIDE DEF new
  <2> QED
    BY <2>1, <2>2, DeliveryAssumption
<1> HIDE DEF new
<1>3. CASE Cardinality(new) < BatchSize
  <2>1. buffer' = new /\ UNCHANGED <<queue, held>>
    BY <1>1, <1>3 DEF Gather
  <2>2. Sized(new, BatchSize - 1)
    BY <1>2, <1>3, DeliveryAssumption DEF Sized
  <2> QED
    BY <1>1, <2>1, <2>2 DEF SizesOK
<1>4. CASE ~(Cardinality(new) < BatchSize)
  <2>1. buffer' = {} /\ Submit(b, new)
    BY <1>1, <1>4 DEF Gather
  <2>2. Sized({}, BatchSize - 1) /\ Sized(new, BatchSize)
    BY <1>2, SizedEmpty, DeliveryAssumption DEF Sized
  <2> QED
    BY <1>1, <2>1, <2>2, SubmitSizes DEF SizesOK
<1> QED
  BY <1>3, <1>4

LEMMA SizesNext ==
    ASSUME TypeInv, SizesOK, Next
    PROVE  SizesOK'
<1>0. /\ TypeOK
      /\ held \in [Submitters -> Batches] /\ carried \in [Workers -> Batches]
      /\ queue \in Seq(Batches)
      /\ Main \in Submitters
      /\ Sized({}, BatchSize - 1) /\ Sized({}, BatchSize)
      /\ BatchSize \in Nat \ {0} /\ MaxBatches \in Nat \ {0}
  BY SizedEmpty, DeliveryAssumption DEF TypeInv, TypeOK, Submitters
<1>1. ASSUME NEW s \in Submitters, Put(s) PROVE SizesOK'
  <2>1. Queues(held[s])
    BY <1>0, <1>1, QueuesOne DEF Put
  <2>2. Len(queue') = Len(queue) + 1 /\ Len(queue) \in Nat /\ ~(Len(queue) >= MaxBatches)
    BY <1>0, <1>1, AppendedQueue DEF Put, QueueFull
  <2>3. Len(queue') <= MaxBatches
    BY <1>0, <2>2
  <2> QED
    BY <1>0, <1>1, <2>1, <2>3 DEF Put, SizesOK, Queues, senders
<1>2. ASSUME NEW w \in Workers, Take(w) PROVE SizesOK'
  <2>1. Takes
    BY <1>0, <1>2, TakesOne DEF Take
  <2>2. Len(queue') = Len(queue) - 1 /\ Len(queue) \in Nat
    BY <1>0, <1>2, TakenQueue DEF Take
  <2>3. Len(queue') <= MaxBatches
    BY <1>0, <2>2 DEF SizesOK
  <2> QED
    BY <1>0, <1>2, <2>1, <2>3 DEF Take, Takes, SizesOK, production
<1>3. ASSUME NEW w \in Workers, Delivered(w) \/ AttemptFailed(w) \/ Refused(w)
      PROVE  \A v \in Workers : Sized(carried'[v], BatchSize)
  BY <1>0, <1>3 DEF SizesOK, Delivered, AttemptFailed, Refused, BatchDone
<1>4. ASSUME NEW w \in Workers, Timeout(w) PROVE SizesOK'
  BY <1>3, <1>4 DEF Timeout, SizesOK, production
<1>5. ASSUME NEW w \in Workers, Resend(w) PROVE SizesOK'
  BY <1>5 DEF Resend, SizesOK, production
<1>6. CASE Handle
  <2>1. PICK m \in wire : Accept(m) \/ Trouble(m) \/ Refuse(m)
    BY <1>6 DEF Handle
  <2>2. \A v \in Workers : Sized(carried'[v], BatchSize)
    BY <1>3, <2>1, HandleCases DEF SizesOK, NoAnswer, senders
  <2> QED
    BY <1>6, <2>2 DEF Handle, SizesOK, production
<1>7. CASE Flush
  <2>1. CASE buffer = {}
    BY <1>0, <1>7, <2>1 DEF Flush, SizesOK, senders
  <2>2. CASE buffer # {}
    <3>1. /\ Submit(Main, buffer) /\ buffer \in Batches
          /\ buffer' = {} /\ UNCHANGED carried
      BY <1>0, <1>7, <2>2 DEF Flush, TypeOK, senders
    <3> QED
      BY <1>0, <3>1, SubmitSizes DEF SizesOK
  <2> QED
    BY <2>1, <2>2
<1>8. CASE WorkerFailed \/ StartDrain \/ Drain
  BY <1>8 DEF WorkerFailed, StartDrain, Drain, SizesOK, production, senders
<1>9. CASE StopFleet
  BY <1>0, <1>9 DEF StopFleet, SizesOK, senders
<1>10. CASE StopWorkers
  BY <1>0, <1>10 DEF StopWorkers, SizesOK, production
<1> QED
  BY <1>1, <1>2, <1>4, <1>5, <1>6, <1>7, <1>8, <1>9, <1>10, ProduceSizes
     DEF Next, Work, RunSimulator

LEMMA SizesInvariant == Spec => []SizesOK
<1>1. TypeInv /\ SizesOK /\ [Next]_vars => SizesOK'
  <2>1. SizesOK /\ UNCHANGED vars => SizesOK'
    BY DEF SizesOK, vars, production, senders
  <2> QED
    BY <2>1, SizesNext
<1>2. DeliveryInv => TypeInv
  BY DEF DeliveryInv
<1> QED
  BY <1>1, <1>2, SizesInit, DeliveryInvariant, PTL DEF Spec

\* The partial batch is in the buffer or with the flush, the full ones are in
\* the queue, with the workers and with the batteries.
LEMMA MemoryBound ==
    ASSUME DeliveryInv, SizesOK
    PROVE  BoundedMemory
<1> DEFINE Q == UNION {queue[k] : k \in DOMAIN queue}
           C == UNION {carried[w] : w \in Workers}
           H == UNION {held[b] : b \in Batteries}
           P == buffer \cup held[Main]
<1>1. InMemory = (P \cup Q) \cup (C \cup H)
  <2>1. (UNION {held[s] : s \in Submitters}) = H \cup held[Main]
    BY DEF Submitters
  <2>2. InMemory = buffer \cup (UNION {held[s] : s \in Submitters}) \cup Q \cup C
    BY DEF InMemory
  <2> HIDE DEF Q, C, H
  <2> QED
    BY <2>1, <2>2
<1>2. Sized(P, BatchSize - 1)
  <2>1. P = buffer \/ P = held[Main]
    BY DEF DeliveryInv, FlowOK
  <2> QED
    BY <2>1 DEF SizesOK
<1>3. /\ Cardinality(Workers) \in Nat
      /\ Sized(C, Cardinality(Workers) * BatchSize)
  BY BatchesSized, DeliveryAssumption DEF SizesOK
<1>4. /\ Cardinality(Batteries) \in Nat
      /\ Sized(H, Cardinality(Batteries) * BatchSize)
  BY BatchesSized, DeliveryAssumption DEF SizesOK, Submitters
<1>5. Sized(Q, MaxBatches * BatchSize)
  <2> DEFINE slot == [k \in 1..MaxBatches |-> IF k \in DOMAIN queue THEN queue[k] ELSE {}]
  <2>1. DOMAIN queue \subseteq 1..MaxBatches
    <3>1. queue \in Seq(Batches)
      BY DEF DeliveryInv, TypeInv, TypeOK
    <3>2. DOMAIN queue = 1..Len(queue) /\ Len(queue) \in Nat
      BY <3>1
    <3> QED
      BY <3>2, DeliveryAssumption DEF SizesOK
  <2>2. Q = UNION {slot[k] : k \in 1..MaxBatches}
    BY <2>1
  <2>3. \A k \in 1..MaxBatches : Sized(slot[k], BatchSize)
    BY SizedEmpty, DeliveryAssumption DEF SizesOK
  <2>4. IsFiniteSet(1..MaxBatches) /\ Cardinality(1..MaxBatches) = MaxBatches
    <3>1. /\ MaxBatches \in Nat \ {0} /\ 1 \in Int /\ MaxBatches \in Int
          /\ IsFiniteSet(1..MaxBatches)
          /\ Cardinality(1..MaxBatches) = IF 1 > MaxBatches THEN 0 ELSE MaxBatches - 1 + 1
      BY FS_Interval, DeliveryAssumption
    <3> QED
      BY <3>1
  <2> HIDE DEF slot, Q
  <2>5. Sized(UNION {slot[k] : k \in 1..MaxBatches}, Cardinality(1..MaxBatches) * BatchSize)
    BY <2>3, <2>4, BatchesSized, DeliveryAssumption
  <2> QED
    BY <2>2, <2>4, <2>5
<1> HIDE DEF P, Q, C, H
<1> DEFINE nW == Cardinality(Workers)
           nB == Cardinality(Batteries)
<1>6. /\ BatchSize - 1 \in Nat
      /\ MaxBatches * BatchSize \in Nat
      /\ nW \in Nat /\ nB \in Nat
      /\ nW * BatchSize \in Nat
      /\ nB * BatchSize \in Nat
  BY <1>3, <1>4, DeliveryAssumption
<1>7. Sized(InMemory, ((BatchSize - 1) + MaxBatches * BatchSize)
                      + (nW * BatchSize + nB * BatchSize))
  <2>1. Sized(P \cup Q, (BatchSize - 1) + MaxBatches * BatchSize)
    BY <1>2, <1>5, <1>6, SizedUnion
  <2>2. Sized(C \cup H, nW * BatchSize + nB * BatchSize)
    BY <1>3, <1>4, <1>6, SizedUnion
  <2>3. /\ (BatchSize - 1) + MaxBatches * BatchSize \in Nat
        /\ nW * BatchSize + nB * BatchSize \in Nat
    BY <1>6
  <2> QED
    BY <1>1, <2>1, <2>2, <2>3, SizedUnion
<1>8. ((BatchSize - 1) + MaxBatches * BatchSize) + (nW * BatchSize + nB * BatchSize)
         = BatchSize * (MaxBatches + nW + nB) + BatchSize - 1
  <2>1. \A n, i, j, k \in Nat :
           ((n - 1) + i * n) + (j * n + k * n) = n * (i + j + k) + n - 1
    OBVIOUS
  <2>2. BatchSize \in Nat /\ MaxBatches \in Nat
    BY DeliveryAssumption
  <2> HIDE DEF nW, nB
  <2> QED
    BY <1>6, <2>1, <2>2
<1> QED
  BY <1>7, <1>8 DEF Sized, BoundedMemory

\* The events in memory stay bounded however long the backend is down: the
\* batch of the flush counts as the buffer's, which it has emptied (delivery.py,
\* backpressure).
THEOREM BoundedMemoryHolds == Spec => []BoundedMemory
<1>1. DeliveryInv /\ SizesOK => BoundedMemory
  BY MemoryBound
<1> QED
  BY <1>1, DeliveryInvariant, SizesInvariant, PTL

=============================================================================
