--------------------------- MODULE RealtimeProofs ---------------------------
(***************************************************************************)
(* What one slow client can cost the server, and who is subscribed, for    *)
(* every queue size and any number of connections, failures and changes of *)
(* the fleet.                                                              *)
(***************************************************************************)
EXTENDS Realtime, FiniteSetTheorems, TLAPS

Reading == [at : {"idle", "total", "state", "done"}, total : Nat, online : Nat]

\* The queues hold summaries because the publisher has read one, and it has
\* because the fleet is counted in natural numbers.
QueueInv ==
    /\ fleet \in Fleet
    /\ reading \in [Readers -> Reading]
    /\ queue \in [Connections -> Seq(Summaries)]
    /\ SlowClientBounded

\* Putting an event into a bounded queue (Broadcaster.publish) gives a bounded
\* queue, also when the queue is full.
LEMMA OfferBounded ==
    ASSUME NEW q \in Seq(Summaries), Len(q) <= QueueSize, NEW e \in Summaries
    PROVE  /\ Offer(q, e) \in Seq(Summaries)
           /\ Len(Offer(q, e)) <= QueueSize
<1>1. CASE Len(q) < QueueSize
  BY <1>1, RealtimeAssumption DEF Offer
<1>2. CASE ~(Len(q) < QueueSize)
  <2>1. Len(q) = QueueSize /\ q # <<>>
    BY <1>2, RealtimeAssumption
  <2>2. Tail(q) \in Seq(Summaries) /\ Len(Tail(q)) = Len(q) - 1
    BY <2>1
  <2> QED
    BY <1>2, <2>1, <2>2, RealtimeAssumption DEF Offer
<1> QED
  BY <1>1, <1>2

\* A reader that has read both figures has read a summary (get_fleet_summary).
LEMMA ReadingIsSummary ==
    ASSUME NEW f \in Reading
    PROVE  SummaryOf(f) \in Summaries
BY DEF SummaryOf, Summaries, Reading

LEMMA QueueInvInit == Init => QueueInv
BY RealtimeAssumption
   DEF Init, QueueInv, SlowClientBounded, Fleet, Reading, Idle, Summaries

LEMMA QueueInvNext ==
    ASSUME QueueInv, [Next]_vars
    PROVE  QueueInv'
<1> USE DEF QueueInv, SlowClientBounded
<1>idle. Idle \in Reading /\ Requested \in Reading
  BY DEF Idle, Requested, Reading
<1>fleet. CASE FleetChanges
  BY <1>fleet DEF FleetChanges, Register, Report, GoOffline, Fleet, server
<1>read. ASSUME NEW r \in Readers, Read(r) PROVE QueueInv'
  <2>1. reading[r] \in Reading
    BY <1>read
  <2>2. PICK f \in Reading : reading' = [reading EXCEPT ![r] = f]
    <3>1. CASE reading[r].at = "total"
      <4>1. [reading[r] EXCEPT !.at = "state", !.total = fleet.total] \in Reading
        BY <2>1 DEF Reading, Fleet
      <4> QED
        BY <1>read, <3>1, <4>1 DEF Read
    <3>2. CASE reading[r].at = "state"
      <4>1. [reading[r] EXCEPT !.at = "done", !.online = fleet.online] \in Reading
        BY <2>1 DEF Reading, Fleet
      <4> QED
        BY <1>read, <3>2, <4>1 DEF Read
    <3> QED
      BY <1>read, <3>1, <3>2 DEF Read
  <2> QED
    BY <1>read, <2>2 DEF Read, server
<1>publish. CASE Publish
  <2> DEFINE event == SummaryOf(reading[Publisher])
  <2>1. event \in Summaries
    BY ReadingIsSummary DEF Readers
  <2>2. \A c \in Connections : /\ Offer(queue[c], event) \in Seq(Summaries)
                               /\ Len(Offer(queue[c], event)) <= QueueSize
    BY <2>1, OfferBounded
  <2>3. queue' = [c \in Connections |->
                     IF c \in subscribers THEN Offer(queue[c], event) ELSE queue[c]]
    BY <1>publish DEF Publish
  <2>4. fleet' \in Fleet /\ reading' \in [Readers -> Reading]
    BY <1>publish, <1>idle DEF Publish
  <2> HIDE DEF event
  <2> QED
    BY <2>2, <2>3, <2>4
<1>endStream. ASSUME NEW c \in Connections, EndStream(c) PROVE QueueInv'
  BY <1>endStream, RealtimeAssumption DEF EndStream
<1>update. ASSUME NEW c \in Connections, OnFleetUpdate(c) PROVE QueueInv'
  <2>1. Tail(queue[c]) \in Seq(Summaries) /\ Len(Tail(queue[c])) <= QueueSize
    <3>1. queue[c] \in Seq(Summaries) /\ queue[c] # <<>> /\ Len(queue[c]) <= QueueSize
      BY <1>update DEF OnFleetUpdate
    <3>2. Tail(queue[c]) \in Seq(Summaries) /\ Len(Tail(queue[c])) = Len(queue[c]) - 1
      BY <3>1
    <3> QED
      BY <3>1, <3>2, RealtimeAssumption
  <2> QED
    BY <1>update, <2>1 DEF OnFleetUpdate
<1>readers. CASE \/ WakePublisher \/ PublisherFails \/ Mount
                 \/ \E c \in Connections :
                       OnOpen(c) \/ SnapshotArrives(c) \/ SnapshotFails(c)
  <2>1. UNCHANGED <<fleet, queue>>
    BY <1>readers DEF WakePublisher, PublisherFails, Mount, OnOpen, SnapshotArrives,
                      SnapshotFails, server
  <2>2. reading' \in [Readers -> Reading]
    BY <1>readers, <1>idle DEF WakePublisher, PublisherFails, Mount, OnOpen,
                               SnapshotArrives, SnapshotFails
  <2> QED
    BY <2>1, <2>2
<1>others. CASE \/ Retry \/ Unmount \/ UNCHANGED vars
                \/ \E c \in Connections :
                      Accept(c) \/ Subscribe(c) \/ BreakConnection(c) \/ OnError(c)
  <2>1. UNCHANGED <<fleet, reading, queue>>
    BY <1>others DEF Retry, Unmount, Accept, Subscribe, BreakConnection, OnError,
                     server, vars
  <2> QED
    BY <2>1
<1> QED
  <2>1. Publisher \in Readers /\ Connections \subseteq Readers
    BY DEF Readers
  <2> QED
    BY <2>1, <1>fleet, <1>read, <1>publish, <1>endStream, <1>update, <1>readers, <1>others
    DEF Next, PublisherSteps, StreamSteps, SnapshotSteps, BrowserSteps

\* Whatever the clients do, none has more than QueueSize events waiting on the
\* server (broadcaster.py: a slow client's queue is bounded).
THEOREM SlowClientBoundedHolds == Spec => []SlowClientBounded
<1>1. QueueInv => SlowClientBounded
  BY DEF QueueInv
<1> QED
  BY <1>1, QueueInvInit, QueueInvNext, PTL DEF Spec

-----------------------------------------------------------------------------
(***************************************************************************)
(* Connections are numbered as they are opened, and each is paid for: by   *)
(* the visit that opened it or by the loss of the one before it.           *)
(***************************************************************************)

\* The page has lost its connection, or is about to notice, and has not opened
\* the next one.
Lost == page.mounted /\ (page.connection = None \/ page.connection \in cut)

OpenedUpTo(n) == \A c \in Connections : endpoint[c] # "none" <=> c <= n

ConnectionsCounted == \E n \in Nat :
    /\ OpenedUpTo(n)
    /\ cut \subseteq 1..n
    /\ page.connection # None => page.connection \in 1..n
    /\ n <= due
    /\ Lost => n + 1 <= due

LEMMA NextIsNew ==
    ASSUME NEW n \in Nat, n < MaxConnections, OpenedUpTo(n)
    PROVE  NextConnection = n + 1 /\ n + 1 \in Connections
<1> DEFINE opened == {c \in Connections : endpoint[c] # "none"}
<1>1. opened = 1..n
  BY RealtimeAssumption DEF OpenedUpTo, Connections
<1>2. NextConnection = n + 1
  <2>1. NextConnection = 1 + Cardinality(opened)
    BY DEF NextConnection
  <2>2. Cardinality(1..n) = n
    BY FS_Interval
  <2> HIDE DEF opened
  <2> QED
    BY <1>1, <2>1, <2>2
<1> QED
  BY <1>2, RealtimeAssumption DEF Connections

LEMMA RoomForNext ==
    ASSUME TypeOK, ConnectionsCounted, Mount \/ Retry
    PROVE  NextConnection \in Connections /\ endpoint[NextConnection] = "none"
<1>1. PICK n \in Nat : /\ OpenedUpTo(n)
                       /\ n <= due
                       /\ Lost => n + 1 <= due
  BY DEF ConnectionsCounted
<1>2. n < MaxConnections
  BY <1>1, RealtimeAssumption DEF Mount, Retry, TypeOK, Lost
<1>3. NextConnection = n + 1 /\ n + 1 \in Connections
  BY <1>1, <1>2, NextIsNew
<1> QED
  BY <1>1, <1>3 DEF OpenedUpTo

LEMMA SameConnections ==
    ASSUME ConnectionsCounted, UNCHANGED <<cut, due>>,
           page'.connection = page.connection, page'.mounted = page.mounted,
           \A c \in Connections : endpoint'[c] = "none" <=> endpoint[c] = "none"
    PROVE  ConnectionsCounted'
BY DEF ConnectionsCounted, OpenedUpTo, Lost

\* Opening the next connection, for a visit or in place of a lost one.
LEMMA OpenNext ==
    ASSUME TypeOK, NEW n \in Nat, OpenedUpTo(n), cut \subseteq 1..n, n + 1 <= due',
           due' \in 0..MaxConnections, UNCHANGED cut,
           endpoint' = [endpoint EXCEPT ![NextConnection] = "requested"],
           page'.connection = NextConnection
    PROVE  ConnectionsCounted' /\ NextConnection \in Connections
<1>1. NextConnection = n + 1 /\ n + 1 \in Connections
  BY NextIsNew, RealtimeAssumption
<1>2. OpenedUpTo(n + 1)'
  BY <1>1 DEF OpenedUpTo, TypeOK, Connections
<1>3. /\ cut' \subseteq 1..(n + 1)
      /\ page'.connection \in 1..(n + 1)
      /\ page'.connection # None /\ page'.connection \notin cut'
  BY <1>1, RealtimeAssumption
<1>4. n + 1 \in Nat /\ ~ Lost'
  BY <1>3 DEF Lost
<1> QED
  BY <1>1, <1>2, <1>3, <1>4 DEF ConnectionsCounted

LEMMA PageFields ==
    ASSUME TypeOK
    PROVE  page = [mounted |-> page.mounted, since |-> page.since,
                   connection |-> page.connection,
                   hasConnectedBefore |-> page.hasConnectedBefore,
                   summary |-> page.summary, loading |-> page.loading,
                   error |-> page.error, connectionState |-> page.connectionState]
BY DEF TypeOK

LEMMA CountedStep ==
    ASSUME TypeOK, ConnectionsCounted, [Next]_vars
    PROVE  ConnectionsCounted'
<1> USE DEF server, bounds
<1>n. PICK n \in Nat : /\ OpenedUpTo(n)
                       /\ cut \subseteq 1..n
                       /\ page.connection # None => page.connection \in 1..n
                       /\ n <= due
                       /\ Lost => n + 1 <= due
  BY DEF ConnectionsCounted
<1>nat. due \in Nat
  BY DEF TypeOK
<1>server. CASE \/ UNCHANGED vars \/ PublisherSteps \/ PublisherFails \/ FleetChanges
                \/ \E c \in Connections : Accept(c) \/ StreamSteps(c) \/ Read(c)
  <2>1. UNCHANGED <<page, cut, due>>
    BY <1>server DEF vars, PublisherSteps, WakePublisher, Read, Publish, PublisherFails,
                     FleetChanges, Accept, StreamSteps, Subscribe, EndStream
  <2>2. \A c \in Connections : endpoint'[c] = "none" <=> endpoint[c] = "none"
    BY <1>server DEF vars, PublisherSteps, WakePublisher, Read, Publish, PublisherFails,
                     FleetChanges, Accept, StreamSteps, Subscribe, EndStream, TypeOK
  <2> QED
    BY <2>1, <2>2, SameConnections
<1>shown. ASSUME NEW c \in Connections,
                 \/ OnOpen(c) \/ OnFleetUpdate(c) \/ SnapshotArrives(c) \/ SnapshotFails(c)
          PROVE  ConnectionsCounted'
  <2>1. UNCHANGED <<endpoint, cut, due>>
    BY <1>shown DEF OnOpen, OnFleetUpdate, SnapshotArrives, SnapshotFails
  <2>2. page'.connection = page.connection /\ page'.mounted = page.mounted
    BY <1>shown, PageFields DEF OnOpen, OnFleetUpdate, SnapshotArrives, SnapshotFails
  <2> QED
    BY <2>1, <2>2, SameConnections
<1>mount. CASE Mount
  <2>1. page'.connection = NextConnection
    BY <1>mount DEF Mount
  <2>2. n + 1 <= due' /\ due' \in 0..MaxConnections
    BY <1>mount, <1>n, RealtimeAssumption DEF Mount, TypeOK
  <2> QED
    BY <1>mount, <1>n, <2>1, <2>2, OpenNext DEF Mount
<1>retry. CASE Retry
  <2>1. page'.connection = NextConnection
    BY <1>retry, PageFields DEF Retry
  <2>2. n + 1 <= due' /\ due' \in 0..MaxConnections
    BY <1>retry, <1>n DEF Retry, TypeOK, Lost
  <2> QED
    BY <1>retry, <1>n, <2>1, <2>2, OpenNext DEF Retry
<1>break. ASSUME NEW c \in Connections, BreakConnection(c) PROVE ConnectionsCounted'
  <2>1. c # None /\ c \in 1..n
    BY <1>n, <1>break, RealtimeAssumption DEF BreakConnection, Connections
  <2>2. OpenedUpTo(n)' /\ cut' \subseteq 1..n /\ n + 1 <= due'
    BY <1>n, <1>nat, <1>break, <2>1 DEF BreakConnection, OpenedUpTo
  <2> QED
    BY <1>n, <1>break, <2>2, <1>nat DEF BreakConnection, ConnectionsCounted
<1>error. ASSUME NEW c \in Connections, OnError(c) PROVE ConnectionsCounted'
  <2>1. page'.connection = None /\ page'.mounted = page.mounted
    BY <1>error, PageFields DEF OnError
  <2>2. page.mounted => n + 1 <= due
    BY <1>n, <1>error DEF OnError, Lost
  <2>3. OpenedUpTo(n)' /\ (Lost' => page.mounted)
    BY <1>n, <1>error, <2>1 DEF OnError, OpenedUpTo, Lost
  <2> QED
    BY <1>n, <1>error, <2>1, <2>2, <2>3 DEF OnError, ConnectionsCounted
<1>unmount. CASE Unmount
  <2>1. page'.connection = None /\ ~ page'.mounted
    BY <1>unmount DEF Unmount, Unmounted
  <2>2. OpenedUpTo(n)' /\ cut' \subseteq 1..n /\ ~ Lost'
    BY <1>n, <1>unmount, <2>1 DEF Unmount, OpenedUpTo, Lost
  <2> QED
    BY <1>n, <1>unmount, <2>1, <2>2 DEF Unmount, ConnectionsCounted
<1> QED
  BY <1>server, <1>shown, <1>mount, <1>retry, <1>break, <1>error, <1>unmount
  DEF Next, SnapshotSteps, BrowserSteps

\* A client is subscribed only while its generator streams to it.
LEMMA StreamingStep ==
    ASSUME TypeOK, [Next]_vars, ConnectionsCounted
    PROVE  /\ endpoint' \in [Connections -> {"none", "requested", "accepted",
                                             "streaming", "ended"}]
           /\ subscribers' \subseteq {c \in Connections : endpoint'[c] = "streaming"}
           /\ cut' \subseteq Connections
<1> USE DEF server, bounds
<1>1. ASSUME NEW c \in Connections, Accept(c) \/ StreamSteps(c)
      PROVE  /\ endpoint' \in [Connections -> {"none", "requested", "accepted",
                                               "streaming", "ended"}]
             /\ subscribers' \subseteq {d \in Connections : endpoint'[d] = "streaming"}
             /\ cut' = cut
  <2>1. /\ endpoint \in [Connections -> {"none", "requested", "accepted",
                                         "streaming", "ended"}]
        /\ subscribers \subseteq {d \in Connections : endpoint[d] = "streaming"}
    BY DEF TypeOK
  <2>2. CASE Accept(c)
    BY <2>1, <2>2 DEF Accept
  <2>3. CASE Subscribe(c)
    BY <2>1, <2>3 DEF Subscribe
  <2>4. CASE EndStream(c)
    BY <2>1, <2>4 DEF EndStream
  <2> QED
    BY <1>1, <2>2, <2>3, <2>4 DEF StreamSteps
<1>2. CASE Mount \/ Retry
  <2>3. NextConnection \in Connections /\ endpoint[NextConnection] = "none"
    BY <1>2, RoomForNext
  <2>4. /\ endpoint' = [endpoint EXCEPT ![NextConnection] = "requested"]
        /\ UNCHANGED <<subscribers, cut>>
    BY <1>2 DEF Mount, Retry
  <2> QED
    BY <2>3, <2>4 DEF TypeOK
<1>3. CASE ~ (Mount \/ Retry \/ \E c \in Connections : Accept(c) \/ StreamSteps(c))
  <2>1. UNCHANGED <<subscribers, endpoint>> /\ cut' \subseteq Connections
    BY <1>3 DEF Next, vars, PublisherSteps, WakePublisher, Read, Publish, PublisherFails,
       FleetChanges, SnapshotSteps, BrowserSteps, OnOpen, OnFleetUpdate, OnError,
       SnapshotArrives, SnapshotFails, BreakConnection, Unmount, TypeOK
  <2> QED
    BY <2>1 DEF TypeOK
<1> QED
  BY <1>1, <1>2, <1>3 DEF TypeOK

Page == [mounted : BOOLEAN, since : Connections \cup {0},
         connection : Connections \cup {None}, hasConnectedBefore : BOOLEAN,
         summary : Summaries \cup {None}, loading : BOOLEAN, error : BOOLEAN,
         connectionState : {"connecting", "live", "reconnecting", "disconnected"}]

LEMMA PageStep ==
    ASSUME TypeOK, [Next]_vars, ConnectionsCounted
    PROVE  page' \in Page
<1> USE DEF server, bounds
<1>page. page \in Page
  BY DEF TypeOK, Page
<1>next. CASE Mount \/ Retry
  <2>1. NextConnection \in Connections
    BY <1>next, RoomForNext
  <2>2. CASE Mount
    <3>1. page' = [mounted |-> TRUE, since |-> NextConnection, connection |-> NextConnection,
                   hasConnectedBefore |-> FALSE, summary |-> None, loading |-> TRUE,
                   error |-> FALSE, connectionState |-> "connecting"]
      BY <2>2 DEF Mount
    <3> QED
      BY <2>1, <3>1 DEF Page
  <2>3. CASE Retry
    <3>1. page' = [page EXCEPT !.connection = NextConnection]
      BY <2>3 DEF Retry
    <3> QED
      BY <1>page, <2>1, <3>1 DEF Page
  <2> QED
    BY <1>next, <2>2, <2>3
<1>update. ASSUME NEW c \in Connections, OnFleetUpdate(c) PROVE page' \in Page
  <2>1. Head(queue[c]) \in Summaries
    BY <1>update DEF OnFleetUpdate, TypeOK
  <2> QED
    BY <1>update, <1>page, <2>1 DEF OnFleetUpdate, Page
<1>snapshot. ASSUME NEW c \in Connections, SnapshotArrives(c) \/ SnapshotFails(c)
             PROVE  page' \in Page
  <2>1. reading[c] \in Reading
    BY DEF TypeOK, Readers, Reading
  <2>2. SummaryOf(reading[c]) \in Summaries
    BY <2>1, ReadingIsSummary
  <2>3. (page.loading /\ c # page.since) \in BOOLEAN
    OBVIOUS
  <2> QED
    BY <1>snapshot, <1>page, <2>2, <2>3 DEF SnapshotArrives, SnapshotFails, Page
<1>browser. ASSUME NEW c \in Connections, OnOpen(c) \/ OnError(c) PROVE page' \in Page
  BY <1>browser, <1>page DEF OnOpen, OnError, Page
<1>unmount. CASE Unmount
  BY <1>unmount DEF Unmount, Unmounted, Page
<1>others. CASE \/ UNCHANGED vars \/ PublisherSteps \/ PublisherFails \/ FleetChanges
                \/ \E c \in Connections :
                      Accept(c) \/ StreamSteps(c) \/ Read(c) \/ BreakConnection(c)
  BY <1>others, <1>page DEF vars, PublisherSteps, WakePublisher, Read, Publish,
     PublisherFails, FleetChanges, Accept, StreamSteps, Subscribe, EndStream, BreakConnection
<1> QED
  BY <1>next, <1>update, <1>snapshot, <1>browser, <1>unmount, <1>others
  DEF Next, SnapshotSteps, BrowserSteps

LEMMA BoundsStep ==
    ASSUME TypeOK, [Next]_vars
    PROVE  changes' \in 0..MaxChanges /\ due' \in 0..MaxConnections /\ failures' \in 0..MaxFailures
<1> USE DEF server, bounds
<1>1. changes \in 0..MaxChanges /\ due \in 0..MaxConnections /\ failures \in 0..MaxFailures
  BY DEF TypeOK
<1>2. CASE \/ UNCHANGED vars \/ PublisherSteps \/ Retry \/ Unmount
           \/ \E c \in Connections : Accept(c) \/ StreamSteps(c) \/ SnapshotSteps(c)
                                     \/ BrowserSteps(c)
  BY <1>1, <1>2 DEF vars, PublisherSteps, WakePublisher, Read, Publish, Accept, StreamSteps,
     Subscribe, EndStream, SnapshotSteps, SnapshotArrives, BrowserSteps, OnOpen,
     OnFleetUpdate, OnError, Retry, Unmount
<1>3. CASE PublisherFails \/ \E c \in Connections : SnapshotFails(c)
  BY <1>1, <1>3, RealtimeAssumption DEF PublisherFails, SnapshotFails
<1>4. CASE Mount \/ \E c \in Connections : BreakConnection(c)
  BY <1>1, <1>4, RealtimeAssumption DEF Mount, BreakConnection
<1>5. CASE FleetChanges
  BY <1>1, <1>5, RealtimeAssumption DEF FleetChanges
<1> QED
  BY <1>2, <1>3, <1>4, <1>5 DEF Next

LEMMA InitRealtime == Init => TypeOK /\ ConnectionsCounted
<1> SUFFICES ASSUME Init PROVE TypeOK /\ ConnectionsCounted
  OBVIOUS
<1>1. TypeOK
  BY RealtimeAssumption DEF Init, TypeOK, Fleet, Idle, Unmounted
<1>2. OpenedUpTo(0)
  BY RealtimeAssumption DEF Init, OpenedUpTo, Connections
<1> QED
  BY <1>1, <1>2 DEF Init, Unmounted, ConnectionsCounted, Lost

\* The types of the server and of the page; a client is subscribed only while
\* its generator is there to unsubscribe it (stream.py, _event_stream).
THEOREM RealtimeTypeCorrect == Spec => []TypeOK
<1>1. TypeOK /\ ConnectionsCounted /\ QueueInv /\ [Next]_vars => TypeOK' /\ ConnectionsCounted'
  <2> SUFFICES ASSUME TypeOK, ConnectionsCounted, QueueInv, [Next]_vars
               PROVE  TypeOK' /\ ConnectionsCounted'
    OBVIOUS
  <2>1. QueueInv'
    BY QueueInvNext
  <2>2. TypeOK'
    BY <2>1, StreamingStep, PageStep, BoundsStep DEF TypeOK, QueueInv, Reading, Page
  <2> QED
    BY <2>2, CountedStep
<1> QED
  BY <1>1, InitRealtime, QueueInvInit, QueueInvNext, PTL DEF Spec
=============================================================================
