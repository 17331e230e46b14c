------------------------ MODULE RegistrationProofs -------------------------
(***************************************************************************)
(* Theorems about Registration, for any configurations, and any number of  *)
(* requests, faults and changes of the configuration.                      *)
(***************************************************************************)
EXTENDS Registration, FiniteSetTheorems, TLAPS

-----------------------------------------------------------------------------
(***************************************************************************)
(* The strengthening.  What a simulator has registered stays registered    *)
(* while it lives; the request it waits for is the one it sent; and of the *)
(* requests about to commit a row none has another for company.            *)
(***************************************************************************)

\* All the batteries before the one being registered are registered.
SoFarRegistered ==
    sim = "registering" =>
        /\ next \in 1..config.device_count
        /\ \A b \in 1..config.device_count : b < next => registry[b] = Fleet(config)[b]

\* The simulator waits for an answer about the battery it is registering.
AwaitsItsRequest ==
    /\ awaiting # None <=> sim = "registering"
    /\ awaiting # None =>
           /\ requests[awaiting].battery = next
           /\ requests[awaiting].profile = Fleet(config)[next]

\* A row inserted and not committed is the only one of its key.
SoleInserter ==
    \A r \in Requests : At(r, "commit") =>
        /\ registry[requests[r].battery] = None
        /\ InsertedBy(r) = {}

CoreOK ==
    /\ registry \in [Ids -> Profiles \cup {None}]
    /\ requests \in [Requests -> [battery : Ids, profile : Profiles,
                                  pc : {"get", "insert", "commit"}] \cup {None}]
    /\ sim \in {"down", "registering", "running"}
    /\ config \in Configs
    /\ next \in 0..config.device_count
    /\ awaiting \in Requests \cup {None}

\* Simulator and registry; the walk reads the registry and changes nothing.
Core == CoreOK /\ SoFarRegistered /\ AwaitsItsRequest /\ SoleInserter /\ RunningMeansRegistered

WalkOK ==
    /\ walk = [pc |-> walk.pc, offset |-> walk.offset, total |-> walk.total,
               seen |-> walk.seen, must |-> walk.must]
    /\ walk.pc \in {"idle", "count", "rows", "done"}
    /\ walk.must \subseteq Ids /\ walk.seen \subseteq Ids

Bounded == faults \in 0..MaxFaults /\ redeploys \in 0..MaxRedeploys

IInv == Core /\ WalkOK /\ Bounded

-----------------------------------------------------------------------------
\* What build_fleet makes is a fleet.
LEMMA FleetType ==
    ASSUME NEW c \in Configs
    PROVE  /\ c.device_count \in Nat \ {0}
           /\ \A b \in 1..c.device_count : Fleet(c)[b] \in Profiles /\ b \in Ids
<1>1. c \in [device_count : Nat \ {0}, fault_percent : 0..100]
    BY RegistrationAssumption
<1>2. c.device_count \in Nat \ {0} /\ c.fault_percent \in 0..100
    BY <1>1
<1>3. FaultCount(c) \in Int
  <2>1. \A x \in Int : RoundHalfEven(x, 100) \in Int
    BY DEF RoundHalfEven
  <2>2. c.device_count * c.fault_percent \in Int
    BY <1>2
  <2> QED
    BY <2>1, <2>2 DEF FaultCount
<1>4. ASSUME NEW b \in 1..c.device_count
      PROVE  Fleet(c)[b] \in Profiles
  <2>1. Fleet(c)[b] = ProfileForIndex(b - 1, c)
    BY DEF Fleet
  <2>2. ((b - 1 - FaultCount(c)) % 3) + 1 \in 1..3
    BY <1>2, <1>3
  <2>3. \A i \in 1..3 : NormalProfiles[i] \in Profiles
    BY DEF NormalProfiles, Profiles
  <2> QED
    BY <2>1, <2>2, <2>3 DEF ProfileForIndex, Profiles
<1>5. \A b \in 1..c.device_count : b \in Ids
    BY DEF Ids
<1> QED
    BY <1>2, <1>4, <1>5

\* A profile is a row, and no row is a profile.
LEMMA ProfilesAreRows == None \notin Profiles
BY RegistrationAssumption DEF Profiles

-----------------------------------------------------------------------------
(***************************************************************************)
(* The two ways a request ends, after a step of the registry that changes  *)
(* no row there is, nor one that another request is about to commit.       *)
(***************************************************************************)

RegistryGrows(r) ==
    /\ registry' \in [Ids -> Profiles \cup {None}]
    /\ \A b \in Ids : registry[b] # None => registry'[b] = registry[b]
    /\ \A q \in Requests \ {r} : At(q, "commit") => registry'[requests[q].battery] = None

\* Requests that a step leaves alone stay sole inserters, if what it does to
\* the one it changes is no insertion.
LEMMA OthersStaySole ==
    ASSUME Core, NEW r \in Requests, RegistryGrows(r), NEW x,
           requests' = [requests EXCEPT ![r] = x], x = None \/ x.pc # "commit"
    PROVE  SoleInserter'
<1> SUFFICES ASSUME NEW q \in Requests, At(q, "commit")'
             PROVE  registry'[requests'[q].battery] = None /\ InsertedBy(q)' = {}
    BY DEF SoleInserter
<1>1. q # r /\ requests'[q] = requests[q] /\ At(q, "commit")
    BY DEF Core, CoreOK, At
<1>2. registry'[requests'[q].battery] = None
    BY <1>1 DEF RegistryGrows
<1>3. \A p \in Requests \ {q} : At(p, "commit")' => At(p, "commit") /\ requests'[p] = requests[p]
    BY DEF Core, CoreOK, At
<1>4. InsertedBy(q) = {}
    BY <1>1 DEF Core, SoleInserter
<1>5. InsertedBy(q)' = {}
    BY <1>1, <1>3, <1>4 DEF InsertedBy
<1> QED
    BY <1>2, <1>5

LEMMA SucceedCore ==
    ASSUME Core, NEW r \in Requests, requests[r] # None, RegistryGrows(r),
           registry'[requests[r].battery] = requests[r].profile,
           Succeed(r), UNCHANGED config
    PROVE  Core'
<1>1. CASE r = awaiting
  <2>1. /\ sim = "registering" /\ next \in 1..config.device_count
        /\ requests[r].battery = next /\ requests[r].profile = Fleet(config)[next]
    BY <1>1, RegistrationAssumption DEF Core, CoreOK, SoFarRegistered, AwaitsItsRequest
  <2>2. \A b \in 1..config.device_count : b <= next => registry'[b] = Fleet(config)[b]
    <3> SUFFICES ASSUME NEW b \in 1..config.device_count, b <= next
                 PROVE  registry'[b] = Fleet(config)[b]
        OBVIOUS
    <3>1. CASE b = next
        BY <2>1, <3>1
    <3>2. CASE b # next
      <4>1. b < next
        BY <2>1, <3>2
      <4>2. registry[b] = Fleet(config)[b]
        BY <2>1, <4>1 DEF Core, SoFarRegistered
      <4>3. b \in Ids /\ Fleet(config)[b] \in Profiles
        BY FleetType DEF Core, CoreOK
      <4> QED
        BY <4>2, <4>3, ProfilesAreRows DEF RegistryGrows
    <3> QED
        BY <3>1, <3>2
  <2>3. r # None
    BY RegistrationAssumption
  <2>4. CASE next < config.device_count
    <3>1. /\ requests' = [requests EXCEPT ![r] = RegisterBattery(next + 1)]
          /\ next' = next + 1 /\ UNCHANGED <<sim, awaiting>>
        BY <1>1, <2>4, <2>1 DEF Succeed, RegisterNext, Core, CoreOK
    <3>2. next + 1 \in 1..config.device_count
        BY <2>1, <2>4, FleetType DEF Core, CoreOK
    <3>3. RegisterBattery(next + 1) \in [battery : Ids, profile : Profiles, pc : {"get"}]
        BY <3>2, FleetType DEF RegisterBattery, Core, CoreOK
    <3>4. CoreOK'
        BY <3>1, <3>2, <3>3 DEF Core, CoreOK, RegistryGrows
    <3>5. SoFarRegistered'
        BY <2>1, <2>2, <3>1, <3>2, FleetType DEF SoFarRegistered, Core, CoreOK
    <3>6. requests'[r] = RegisterBattery(next + 1)
        BY <3>1 DEF Core, CoreOK
    <3>7. AwaitsItsRequest'
      <4>1. awaiting' = r /\ sim' = "registering" /\ config' = config
        BY <1>1, <2>1, <3>1
      <4> QED
        BY <2>3, <3>1, <3>6, <4>1 DEF AwaitsItsRequest, RegisterBattery
    <3>8. SoleInserter'
        BY <3>1, <3>3, OthersStaySole
    <3>9. RunningMeansRegistered'
        BY <2>1, <3>1 DEF RunningMeansRegistered
    <3> QED
        BY <3>4, <3>5, <3>7, <3>8, <3>9 DEF Core
  <2>5. CASE next = config.device_count
    <3>1. /\ requests' = [requests EXCEPT ![r] = None]
          /\ sim' = "running" /\ awaiting' = None /\ next' = next
        BY <1>1, <2>5, <2>1, FleetType DEF Succeed, RegisterNext, Core, CoreOK
    <3>2. CoreOK'
        BY <3>1 DEF Core, CoreOK, RegistryGrows
    <3>3. SoFarRegistered' /\ AwaitsItsRequest'
        BY <3>1 DEF SoFarRegistered, AwaitsItsRequest
    <3>4. SoleInserter'
        BY <3>1, OthersStaySole
    <3>5. RunningMeansRegistered'
      <4>1. config.device_count \in Nat /\ config' = config
        BY FleetType DEF Core, CoreOK
      <4>2. \A b \in 1..config'.device_count : registry'[b] = Fleet(config')[b]
        BY <2>2, <2>5, <4>1
      <4> QED
        BY <4>2 DEF RunningMeansRegistered
    <3> QED
        BY <3>2, <3>3, <3>4, <3>5 DEF Core
  <2> QED
    BY <1>1, <2>4, <2>5 DEF Succeed, RegisterNext
<1>2. CASE r # awaiting
  <2>1. requests' = [requests EXCEPT ![r] = None] /\ UNCHANGED <<sim, next, awaiting>>
    BY <1>2 DEF Succeed, Closed, simulator
  <2>2. CoreOK'
    BY <2>1 DEF Core, CoreOK, RegistryGrows
  <2>3. SoleInserter'
    BY <2>1, OthersStaySole
  <2>4. \A b \in 1..config.device_count :
            registry[b] = Fleet(config)[b] => registry'[b] = Fleet(config)[b]
    BY FleetType, ProfilesAreRows DEF Core, CoreOK, RegistryGrows
  <2>5. SoFarRegistered' /\ RunningMeansRegistered'
    BY <2>1, <2>4 DEF Core, SoFarRegistered, RunningMeansRegistered
  <2>6. AwaitsItsRequest'
    BY <1>2, <2>1 DEF Core, CoreOK, AwaitsItsRequest
  <2> QED
    BY <2>2, <2>3, <2>5, <2>6 DEF Core
<1> QED
    BY <1>1, <1>2

\* The simulator is down: nothing is asked of it.
LEMMA ExitCore ==
    ASSUME CoreOK', SoleInserter', Exit
    PROVE  Core'
<1>1. SoFarRegistered' /\ AwaitsItsRequest' /\ RunningMeansRegistered'
    BY DEF Exit, SoFarRegistered, AwaitsItsRequest, RunningMeansRegistered
<1> QED
    BY <1>1 DEF Core

LEMMA RejectCore ==
    ASSUME Core, NEW r \in Requests, RegistryGrows(r), Reject(r), UNCHANGED config
    PROVE  Core'
<1>1. requests' = [requests EXCEPT ![r] = None]
    BY DEF Reject, Closed
<1>2. SoleInserter'
    BY <1>1, OthersStaySole
<1>3. CASE Exit
  <2>1. config'.device_count \in Nat
    BY FleetType DEF Core, CoreOK
  <2>2. CoreOK'
    BY <1>1, <1>3, <2>1 DEF Core, CoreOK, RegistryGrows, Exit
  <2> QED
    BY <1>2, <1>3, <2>2, ExitCore
<1>4. CASE r # awaiting /\ UNCHANGED simulator
  <2>1. UNCHANGED <<sim, next, awaiting>>
    BY <1>4 DEF simulator
  <2>2. CoreOK'
    BY <1>1, <2>1 DEF Core, CoreOK, RegistryGrows
  <2>3. \A b \in 1..config.device_count :
            registry[b] = Fleet(config)[b] => registry'[b] = Fleet(config)[b]
    BY FleetType, ProfilesAreRows DEF Core, CoreOK, RegistryGrows
  <2>4. SoFarRegistered' /\ RunningMeansRegistered'
    BY <2>1, <2>3 DEF Core, SoFarRegistered, RunningMeansRegistered
  <2>5. AwaitsItsRequest'
    BY <1>1, <1>4, <2>1 DEF Core, CoreOK, AwaitsItsRequest
  <2> QED
    BY <1>2, <2>2, <2>4, <2>5 DEF Core
<1> QED
    BY <1>3, <1>4 DEF Reject

\* A step of the registry that changes nothing, or stores what a request has
\* inserted, is one that grows it.
LEMMA UnchangedGrows ==
    ASSUME Core, NEW r \in Requests, UNCHANGED registry
    PROVE  RegistryGrows(r)
BY DEF Core, CoreOK, SoleInserter, RegistryGrows

LEMMA StoringGrows ==
    ASSUME Core, NEW r \in Requests, At(r, "commit"),
           registry' = [registry EXCEPT ![requests[r].battery] = requests[r].profile]
    PROVE  RegistryGrows(r) /\ registry'[requests[r].battery] = requests[r].profile
<1>1. requests[r].battery \in Ids /\ requests[r].profile \in Profiles
    BY DEF Core, CoreOK, At
<1>2. registry[requests[r].battery] = None /\ InsertedBy(r) = {}
    BY DEF Core, SoleInserter
<1>3. ASSUME NEW q \in Requests \ {r}, At(q, "commit")
      PROVE  registry'[requests[q].battery] = None
  <2>1. requests[q].battery # requests[r].battery
    BY <1>2, <1>3 DEF InsertedBy
  <2>2. registry[requests[q].battery] = None /\ requests[q].battery \in Ids
    BY <1>3 DEF Core, CoreOK, SoleInserter, At
  <2> QED
    BY <1>1, <2>1, <2>2 DEF Core, CoreOK
<1> QED
    BY <1>1, <1>2, <1>3 DEF Core, CoreOK, RegistryGrows

LEMMA GoToCore ==
    ASSUME Core, NEW r \in Requests, requests[r] # None, NEW pc \in {"insert", "commit"},
           GoTo(r, pc), UNCHANGED <<registry, config>>,
           pc = "commit" => InsertedBy(r) = {} /\ registry[requests[r].battery] = None
    PROVE  Core'
<1>1. /\ requests' = [requests EXCEPT ![r].pc = pc]
      /\ UNCHANGED <<sim, next, awaiting>>
    BY DEF GoTo, simulator
<1>2. /\ requests'[r].pc = pc
      /\ requests'[r].battery = requests[r].battery
      /\ requests'[r].profile = requests[r].profile
      /\ requests'[r] \in [battery : Ids, profile : Profiles, pc : {"get", "insert", "commit"}]
  <2>1. requests[r] \in [battery : Ids, profile : Profiles, pc : {"get", "insert", "commit"}]
    BY DEF Core, CoreOK
  <2>2. requests'[r] = [requests[r] EXCEPT !.pc = pc]
    BY <1>1 DEF Core, CoreOK
  <2> QED
    BY <2>1, <2>2
<1>3. \A q \in Requests \ {r} : requests'[q] = requests[q]
    BY <1>1 DEF Core, CoreOK
<1>4. CoreOK'
    BY <1>1, <1>2 DEF Core, CoreOK
<1>5. SoFarRegistered' /\ RunningMeansRegistered'
    BY <1>1 DEF Core, SoFarRegistered, RunningMeansRegistered
<1>6. AwaitsItsRequest'
    BY <1>1, <1>2, <1>3 DEF Core, CoreOK, AwaitsItsRequest
<1>7. SoleInserter'
  <2> SUFFICES ASSUME NEW q \in Requests, At(q, "commit")'
               PROVE  registry'[requests'[q].battery] = None /\ InsertedBy(q)' = {}
    BY DEF SoleInserter
  <2>1. CASE q = r
    <3>1. pc = "commit"
        BY <1>2, <2>1 DEF At
    <3>2. InsertedBy(r)' = {}
        BY <1>2, <1>3, <3>1 DEF InsertedBy, At
    <3> QED
        BY <1>2, <2>1, <3>1, <3>2
  <2>2. CASE q # r
    <3>1. At(q, "commit") /\ requests'[q] = requests[q]
        BY <1>3, <2>2 DEF At
    <3>2. registry[requests[q].battery] = None /\ InsertedBy(q) = {}
        BY <3>1 DEF Core, SoleInserter
    <3>3. pc = "commit" => requests[r].battery # requests[q].battery
        BY <2>2, <3>1 DEF InsertedBy
    <3>4. InsertedBy(q)' = {}
        BY <1>2, <1>3, <3>1, <3>2, <3>3 DEF InsertedBy, At
    <3> QED
        BY <3>1, <3>2, <3>4
  <2> QED
    BY <2>1, <2>2
<1> QED
    BY <1>4, <1>5, <1>6, <1>7 DEF Core

LEMMA HandleCore ==
    ASSUME Core, NEW r \in Requests, Handle(r)
    PROVE  Core'
<1> UNCHANGED config
    BY DEF Handle
<1>1. CASE At(r, "get") /\ LookUp(r) /\ UNCHANGED registry
  <2>1. requests[r] # None /\ RegistryGrows(r)
    BY <1>1, UnchangedGrows DEF At
  <2>2. CASE GoTo(r, "insert")
    BY <1>1, <2>1, <2>2, GoToCore
  <2>3. CASE registry[requests[r].battery] = requests[r].profile /\ Succeed(r)
    BY <1>1, <2>1, <2>3, SucceedCore
  <2>4. CASE Reject(r)
    BY <2>1, <2>4, RejectCore
  <2> QED
    BY <1>1, <2>2, <2>3, <2>4 DEF LookUp
<1>2. CASE At(r, "insert") /\ Insert(r) /\ UNCHANGED registry
  <2>1. requests[r] # None /\ RegistryGrows(r)
    BY <1>2, UnchangedGrows DEF At
  <2>2. CASE InsertedBy(r) = {} /\ registry[requests[r].battery] = None /\ GoTo(r, "commit")
    BY <1>2, <2>1, <2>2, GoToCore
  <2>3. CASE Reject(r)
    BY <2>1, <2>3, RejectCore
  <2> QED
    BY <1>2, <2>2, <2>3 DEF Insert
<1>3. CASE At(r, "commit") /\ Commit(r)
  <2>1. requests[r] # None
    BY <1>3 DEF At
  <2>2. RegistryGrows(r) /\ registry'[requests[r].battery] = requests[r].profile
    BY <1>3, StoringGrows DEF Commit
  <2> QED
    BY <1>3, <2>1, <2>2, SucceedCore DEF Commit
<1> QED
    BY <1>1, <1>2, <1>3 DEF Handle

LEMMA FailCore ==
    ASSUME Core, NEW r \in Requests, Fail(r)
    PROVE  Core'
<1>1. RegistryGrows(r)
    BY UnchangedGrows, StoringGrows DEF Fail
<1> QED
    BY <1>1, RejectCore DEF Fail

LEMMA StartCore ==
    ASSUME Core, Start
    PROVE  Core'
<1>1. PICK r \in Requests : /\ requests[r] = None
                            /\ requests' = [requests EXCEPT ![r] = RegisterBattery(1)]
                            /\ awaiting' = r
    BY DEF Start
<1>2. sim' = "registering" /\ next' = 1 /\ UNCHANGED <<registry, config>>
    BY DEF Start
<1>3. config.device_count \in Nat \ {0} /\ 1 \in 1..config.device_count
    BY FleetType DEF Core, CoreOK
<1>4. RegisterBattery(1) \in [battery : Ids, profile : Profiles, pc : {"get"}]
    BY <1>3, FleetType DEF RegisterBattery, Core, CoreOK
<1>5. CoreOK'
    BY <1>1, <1>2, <1>3, <1>4 DEF Core, CoreOK
<1>6. SoFarRegistered' /\ RunningMeansRegistered'
    BY <1>2, <1>3 DEF SoFarRegistered, RunningMeansRegistered
<1>7. requests'[r] = RegisterBattery(1)
    BY <1>1 DEF Core, CoreOK
<1>8. AwaitsItsRequest'
    BY <1>1, <1>2, <1>7, RegistrationAssumption DEF AwaitsItsRequest, RegisterBattery
<1>9. SoleInserter'
    BY <1>1, <1>2, <1>4, UnchangedGrows, OthersStaySole
<1> QED
    BY <1>5, <1>6, <1>8, <1>9 DEF Core

-----------------------------------------------------------------------------
LEMMA InitIInv == Init => IInv
<1> SUFFICES ASSUME Init PROVE IInv
    OBVIOUS
<1>1. CoreOK
  <2>1. config.device_count \in Nat
    BY FleetType DEF Init
  <2> QED
    BY <2>1 DEF Init, CoreOK
<1>2. SoFarRegistered /\ AwaitsItsRequest /\ SoleInserter /\ RunningMeansRegistered
    BY DEF Init, SoFarRegistered, AwaitsItsRequest, SoleInserter, RunningMeansRegistered, At
<1>3. WalkOK
    BY DEF Init, WalkOK
<1>4. Bounded
    BY RegistrationAssumption DEF Init, Bounded
<1> QED
    BY <1>1, <1>2, <1>3, <1>4 DEF IInv, Core

LEMMA NextCore == Core /\ [Next]_vars => Core'
<1> SUFFICES ASSUME Core, [Next]_vars PROVE Core'
    OBVIOUS
<1>1. CASE Start
    BY <1>1, StartCore
<1>2. CASE Stop \/ Redeploy
  <2>1. /\ Exit /\ UNCHANGED <<registry, requests>> /\ config' \in Configs
    BY <1>2 DEF Stop, Redeploy, Core, CoreOK
  <2>2. CoreOK'
    <3>1. config'.device_count \in Nat
        BY <2>1, FleetType
    <3> QED
        BY <2>1, <3>1 DEF Core, CoreOK, Exit
  <2>3. SoleInserter'
    BY <2>1 DEF Core, SoleInserter, At, InsertedBy
  <2> QED
    BY <2>1, <2>2, <2>3, ExitCore
<1>3. CASE \E r \in Requests : Handle(r) \/ Fail(r)
    BY <1>3, HandleCore, FailCore
<1>4. CASE BackendCrash
  <2>1. UNCHANGED <<registry, config>> /\ requests' = [r \in Requests |-> None]
    BY <1>4 DEF BackendCrash
  <2>2. SoleInserter'
    BY <2>1 DEF SoleInserter, At
  <2>3. CASE Exit
    <3>1. config'.device_count \in Nat
        BY <2>1, FleetType DEF Core, CoreOK
    <3>2. CoreOK'
        BY <2>1, <2>3, <3>1 DEF Core, CoreOK, Exit
    <3> QED
        BY <2>2, <2>3, <3>2, ExitCore
  <2>4. CASE sim # "registering" /\ UNCHANGED simulator
    <3>1. UNCHANGED <<sim, next, awaiting>>
        BY <2>4 DEF simulator
    <3>2. CoreOK'
        BY <2>1, <3>1 DEF Core, CoreOK
    <3>3. SoFarRegistered' /\ AwaitsItsRequest' /\ RunningMeansRegistered'
        BY <2>1, <2>4, <3>1
           DEF Core, SoFarRegistered, AwaitsItsRequest, RunningMeansRegistered
    <3> QED
        BY <2>2, <3>2, <3>3 DEF Core
  <2> QED
    BY <1>4, <2>3, <2>4 DEF BackendCrash
<1>5. CASE Walk \/ UNCHANGED vars
  <2>1. UNCHANGED <<registry, requests, sim, next, awaiting, config>>
    BY <1>5 DEF Walk, vars, simulator
  <2>2. CoreOK' /\ SoleInserter'
    BY <2>1 DEF Core, CoreOK, SoleInserter, At, InsertedBy
  <2>3. SoFarRegistered' /\ AwaitsItsRequest' /\ RunningMeansRegistered'
    BY <2>1 DEF Core, SoFarRegistered, AwaitsItsRequest, RunningMeansRegistered
  <2> QED
    BY <2>2, <2>3 DEF Core
<1> QED
    BY <1>1, <1>2, <1>3, <1>4, <1>5 DEF Next

LEMMA NextIInv == IInv /\ [Next]_vars => IInv'
<1> SUFFICES ASSUME IInv, [Next]_vars PROVE IInv'
    OBVIOUS
<1>1. Core'
    BY NextCore DEF IInv
<1>2. WalkOK'
  <2>1. CASE Walk
    <3>1. Registered \subseteq Ids /\ Rows(walk.offset) \subseteq Ids
        BY DEF Registered, Rows
    <3>2. CASE WalkBegin
        BY <3>1, <3>2 DEF WalkBegin, IInv, WalkOK
    <3>3. CASE WalkCount
        BY <3>3 DEF WalkCount, IInv, WalkOK
    <3>4. CASE WalkRows
        BY <3>1, <3>4 DEF WalkRows, IInv, WalkOK
    <3> QED
        BY <2>1, <3>2, <3>3, <3>4 DEF Walk
  <2>2. CASE UNCHANGED walk
    BY <2>2 DEF IInv, WalkOK
  <2> QED
    BY <2>1, <2>2
       DEF Next, vars, Start, Stop, Redeploy, Handle, Fail, BackendCrash
<1>3. Bounded'
    BY RegistrationAssumption
       DEF IInv, Bounded, Next, vars, Start, Stop, Redeploy, Handle, Fail, BackendCrash, Walk
<1> QED
    BY <1>1, <1>2, <1>3 DEF IInv

LEMMA Invariance == Spec => []IInv
<1>1. Init => IInv
    BY InitIInv
<1>2. IInv /\ [Next]_vars => IInv'
    BY NextIInv
<1> QED
    BY <1>1, <1>2, PTL DEF Spec

-----------------------------------------------------------------------------
\* The registry holds profiles, requests are about batteries of some fleet, and
\* the simulator registers within its own.
THEOREM RegistrationTypeCorrect == Spec => []TypeOK
<1>1. IInv => TypeOK
    BY DEF IInv, Core, CoreOK, WalkOK, Bounded, TypeOK
<1> QED
    BY <1>1, Invariance, PTL

\* A running simulator's batteries are registered as it has them, whatever
\* earlier simulators, earlier configurations and failures left behind.
THEOREM RunningFleetIsRegistered == Spec => []RunningMeansRegistered
<1>1. IInv => RunningMeansRegistered
    BY DEF IInv, Core
<1> QED
    BY <1>1, Invariance, PTL

\* No step, nor two requests for one battery at once, changes or removes a
\* registered battery.
THEOREM IdentityIsKept == Spec => IdentityKept
<1> DEFINE Kept == \A b \in Registered : registry'[b] = registry[b]
<1>1. IInv /\ [Next]_vars => [Kept]_vars
  <2> SUFFICES ASSUME IInv, Next PROVE Kept
    OBVIOUS
  <2>1. CASE UNCHANGED registry
    BY <2>1
  <2>2. CASE \E r \in Requests : Handle(r) \/ Fail(r)
    <3>1. PICK r \in Requests : Handle(r) \/ Fail(r)
        BY <2>2
    <3>2. RegistryGrows(r)
        BY <3>1, UnchangedGrows, StoringGrows DEF IInv, Handle, Fail, Commit
    <3> QED
        BY <3>2 DEF RegistryGrows, Registered
  <2> QED
    BY <2>1, <2>2 DEF Next, Start, Stop, Redeploy, BackendCrash, Walk
<1> QED
    BY <1>1, Invariance, PTL DEF Spec, IdentityKept

-----------------------------------------------------------------------------
(***************************************************************************)
(* The walk through the pages.  A battery is asked for only when those     *)
(* before it are registered, so the registered batteries are an initial    *)
(* segment of the list: no row is ever inserted into a page that has been  *)
(* read, and the offset of a row is its place in the list.                 *)
(***************************************************************************)

ListIsPrefix == \E k \in Nat : Registered = 1..k

AskedInOrder ==
    \A r \in Requests : requests[r] # None => 1..(requests[r].battery - 1) \subseteq Registered

\* What the client has to see is shown up to its offset; what it has to see is
\* within the total it has read.
WalkSoFar ==
    /\ walk.offset \in Nat /\ walk.total \in Nat
    /\ walk.pc = "idle" => walk.offset = 0 /\ walk.must = {}
    /\ walk.must \subseteq Registered
    /\ \A b \in walk.must : b <= walk.offset => b \in walk.seen
    /\ walk.pc = "rows" => \A b \in walk.must : b <= walk.total
    /\ walk.pc = "done" => \A b \in walk.must : b <= walk.offset

ListInv == ListIsPrefix /\ AskedInOrder /\ WalkSoFar

LEMMA IdsArePositive == \A b \in Ids : b \in Nat \ {0} /\ 1..b \subseteq Ids
<1> SUFFICES ASSUME NEW b \in Ids PROVE b \in Nat \ {0} /\ 1..b \subseteq Ids
    OBVIOUS
<1>1. PICK c \in Configs : b \in 1..c.device_count
    BY DEF Ids
<1>2. c.device_count \in Nat
    BY FleetType
<1>3. 1..b \subseteq 1..c.device_count
    BY <1>1, <1>2
<1> QED
    BY <1>1, <1>2, <1>3 DEF Ids

\* A registry that grows keeps what is registered.
LEMMA RegisteredGrows ==
    ASSUME NEW r \in Requests, RegistryGrows(r)
    PROVE  Registered \subseteq Registered'
BY DEF RegistryGrows, Registered

\* Storing the row of a request that was made in order extends the list by the
\* next battery, or by none.
LEMMA StoringExtends ==
    ASSUME Core, ListIsPrefix, AskedInOrder, NEW r \in Requests, At(r, "commit"),
           registry' = [registry EXCEPT ![requests[r].battery] = requests[r].profile]
    PROVE  ListIsPrefix'
<1> DEFINE b == requests[r].battery
<1>1. b \in Ids /\ requests[r].profile \in Profiles
    BY DEF Core, CoreOK, At
<1>2. b \in Nat \ {0} /\ 1..(b - 1) \subseteq Registered
    BY <1>1, IdsArePositive DEF AskedInOrder, At
<1>3. Registered' = Registered \cup {b}
    BY <1>1, ProfilesAreRows DEF Registered, Core, CoreOK
<1>4. PICK k \in Nat : Registered = 1..k
    BY DEF ListIsPrefix
<1> HIDE DEF b
<1>5. CASE b <= k
    BY <1>2, <1>3, <1>4, <1>5 DEF ListIsPrefix
<1>6. CASE b > k
  <2>1. b = k + 1
    <3>1. b - 1 > k => FALSE
        BY <1>2, <1>4
    <3> QED
        BY <1>2, <1>6, <3>1
  <2>2. Registered' = 1..(k + 1)
    BY <1>3, <1>4, <2>1
  <2> QED
    BY <2>2 DEF ListIsPrefix
<1> QED
    BY <1>2, <1>5, <1>6

LEMMA PrefixStep ==
    ASSUME Core, ListIsPrefix, AskedInOrder, [Next]_vars
    PROVE  ListIsPrefix' /\ Registered \subseteq Registered'
<1>1. CASE UNCHANGED registry
    BY <1>1 DEF ListIsPrefix, Registered
<1>2. ASSUME NEW r \in Requests, Handle(r) \/ Fail(r)
      PROVE  ListIsPrefix' /\ Registered \subseteq Registered'
  <2>1. \/ UNCHANGED registry
        \/ /\ At(r, "commit")
           /\ registry' = [registry EXCEPT ![requests[r].battery] = requests[r].profile]
    BY <1>2 DEF Handle, Fail, Commit
  <2> QED
    BY <2>1, <1>1, StoringExtends, StoringGrows, RegisteredGrows
<1> QED
    BY <1>1, <1>2 DEF Next, vars, Start, Stop, Redeploy, BackendCrash, Walk

\* The next battery is asked for when this one is registered.
LEMMA SucceedInOrder ==
    ASSUME Core, AskedInOrder, NEW r \in Requests, requests[r] # None, Succeed(r),
           Registered \subseteq Registered',
           registry'[requests[r].battery] = requests[r].profile
    PROVE  AskedInOrder'
<1>1. requests[r].battery \in Registered'
    BY ProfilesAreRows DEF Core, CoreOK, Registered
<1>2. CASE requests' = [requests EXCEPT ![r] = None]
    BY <1>2 DEF AskedInOrder, Core, CoreOK
<1>3. CASE /\ r = awaiting /\ next < config.device_count
           /\ requests' = [requests EXCEPT ![r] = RegisterBattery(next + 1)]
  <2>1. next \in Nat /\ requests[r].battery = next
    BY <1>3, RegistrationAssumption DEF Core, CoreOK, AwaitsItsRequest
  <2>2. 1..(next - 1) \subseteq Registered'
    BY <2>1 DEF AskedInOrder
  <2>3. 1..next \subseteq Registered'
    BY <1>1, <2>1, <2>2
  <2>4. requests'[r].battery = next + 1
    BY <1>3 DEF Core, CoreOK, RegisterBattery
  <2>5. 1..(requests'[r].battery - 1) \subseteq Registered'
    BY <2>1, <2>3, <2>4
  <2>6. \A q \in Requests : q # r => requests'[q] = requests[q]
    BY <1>3 DEF Core, CoreOK
  <2> QED
    BY <2>5, <2>6 DEF AskedInOrder
<1> QED
    BY <1>2, <1>3 DEF Succeed, RegisterNext, Closed

LEMMA OrderStep ==
    ASSUME Core, ListIsPrefix, AskedInOrder, [Next]_vars
    PROVE  AskedInOrder'
<1>1. Registered \subseteq Registered'
    BY PrefixStep
<1>2. CASE UNCHANGED requests
    BY <1>1, <1>2 DEF AskedInOrder
<1>3. CASE Start
  <2>1. PICK r \in Requests : requests' = [requests EXCEPT ![r] = RegisterBattery(1)]
    BY <1>3 DEF Start
  <2>2. requests'[r].battery = 1 /\ \A q \in Requests : q # r => requests'[q] = requests[q]
    BY <2>1 DEF Core, CoreOK, RegisterBattery
  <2>3. 1..(requests'[r].battery - 1) = {}
    BY <2>2
  <2> QED
    BY <1>1, <2>2, <2>3 DEF AskedInOrder
<1>4. CASE BackendCrash
    BY <1>4 DEF BackendCrash, AskedInOrder
<1>5. ASSUME NEW r \in Requests, Handle(r) \/ Fail(r) PROVE AskedInOrder'
  <2>1. requests[r] # None
    BY <1>5 DEF Handle, Fail, At
  <2>2. CASE Reject(r)
    BY <1>1, <2>2 DEF Reject, Closed, AskedInOrder, Core, CoreOK
  <2>3. ASSUME NEW pc, GoTo(r, pc) PROVE AskedInOrder'
    <3>1. requests' = [requests EXCEPT ![r].pc = pc]
        BY <2>3 DEF GoTo
    <3>2. \A q \in Requests : requests'[q] # None =>
             requests[q] # None /\ requests'[q].battery = requests[q].battery
      <4>1. requests[r] \in [battery : Ids, profile : Profiles, pc : {"get", "insert", "commit"}]
          BY <2>1 DEF Core, CoreOK
      <4>2. requests'[r] = [requests[r] EXCEPT !.pc = pc]
          BY <3>1 DEF Core, CoreOK
      <4>3. requests'[r].battery = requests[r].battery
          BY <4>1, <4>2
      <4> QED
          BY <2>1, <3>1, <4>3 DEF Core, CoreOK
    <3> QED
        BY <1>1, <3>2 DEF AskedInOrder
  <2>4. CASE Succeed(r) /\ registry'[requests[r].battery] = requests[r].profile
    BY <1>1, <2>1, <2>4, SucceedInOrder
  <2>5. At(r, "commit") /\ Commit(r) => registry'[requests[r].battery] = requests[r].profile
    BY StoringGrows DEF Commit
  <2> QED
    BY <1>5, <2>2, <2>3, <2>4, <2>5 DEF Handle, Fail, LookUp, Insert, Commit
<1> QED
    BY <1>2, <1>3, <1>4, <1>5 DEF Next, vars, Stop, Redeploy, Walk

\* The rows of a page are the places offset + 1 to offset + PageSize of the list.
LEMMA PageHas ==
    ASSUME ListIsPrefix, NEW offset \in Nat, NEW b \in Registered,
           offset < b, b <= offset + PageSize
    PROVE  b \in Rows(offset)
<1>1. PICK k \in Nat : Registered = 1..k
    BY DEF ListIsPrefix
<1>2. {a \in Registered : a < b} = 1..(b - 1) /\ b \in 1..k
    BY <1>1
<1>3. Cardinality(1..(b - 1)) = b - 1
    BY <1>2, FS_Interval
<1>4. b - 1 \in offset..(offset + PageSize - 1)
    BY <1>2, RegistrationAssumption
<1>5. Cardinality({a \in Registered : a < b}) \in offset..(offset + PageSize - 1)
    BY <1>2, <1>3, <1>4
<1> QED
    BY <1>5 DEF Rows

LEMMA TotalCounts ==
    ASSUME ListIsPrefix
    PROVE  Cardinality(Registered) \in Nat /\ \A b \in Registered : b <= Cardinality(Registered)
<1>1. PICK k \in Nat : Registered = 1..k
    BY DEF ListIsPrefix
<1>2. Cardinality(1..k) = k
    BY FS_Interval
<1> QED
    BY <1>1, <1>2

LEMMA WalkStep ==
    ASSUME IInv, ListInv, [Next]_vars
    PROVE  WalkSoFar'
<1>1. Registered \subseteq Registered'
    BY PrefixStep DEF IInv, ListInv
<1>2. CASE UNCHANGED walk
    BY <1>1, <1>2 DEF ListInv, WalkSoFar
<1>3. CASE Walk
  <2>1. Registered' = Registered
    BY <1>3 DEF Walk, Registered
  <2>2. \A b \in Registered : b \in Nat \ {0}
    BY IdsArePositive DEF Registered
  <2>3. CASE WalkBegin
    BY <2>1, <2>2, <2>3 DEF WalkBegin, ListInv, WalkSoFar, IInv, WalkOK
  <2>4. CASE WalkCount
    BY <2>1, <2>4, TotalCounts DEF WalkCount, ListInv, WalkSoFar, IInv, WalkOK
  <2>5. CASE WalkRows
    <3>1. /\ walk'.must = walk.must
          /\ walk'.offset = walk.offset + PageSize /\ walk'.total = walk.total
          /\ walk'.seen = walk.seen \cup Rows(walk.offset)
          /\ walk'.pc = IF walk.offset + PageSize >= walk.total THEN "done" ELSE "count"
        BY <2>5 DEF WalkRows, IInv, WalkOK
    <3>2. walk.offset \in Nat /\ walk.total \in Nat /\ PageSize \in Nat
        BY RegistrationAssumption DEF ListInv, WalkSoFar
    <3>3. ASSUME NEW b \in walk.must, b <= walk.offset + PageSize
          PROVE  b \in walk.seen \cup Rows(walk.offset)
      <4>1. b \in Registered /\ b \in Nat
          BY <2>2 DEF ListInv, WalkSoFar
      <4>2. CASE b <= walk.offset
          BY <4>2 DEF ListInv, WalkSoFar
      <4>3. CASE walk.offset < b
          BY <3>2, <3>3, <4>1, <4>3, PageHas DEF ListInv
      <4> QED
          BY <3>2, <4>1, <4>2, <4>3
    <3>4. walk'.pc = "done" => \A b \in walk.must : b <= walk.offset + PageSize
      <4>1. \A b \in walk.must : b \in Nat /\ b <= walk.total
          BY <2>2, <2>5 DEF WalkRows, ListInv, WalkSoFar
      <4> QED
          BY <3>1, <3>2, <4>1
    <3> QED
        BY <2>1, <3>1, <3>2, <3>3, <3>4 DEF ListInv, WalkSoFar
  <2> QED
    BY <1>3, <2>3, <2>4, <2>5 DEF Walk
<1> QED
    BY <1>2, <1>3 DEF Next, vars, Start, Stop, Redeploy, Handle, Fail, BackendCrash

LEMMA InitList == Init => ListInv
<1> SUFFICES ASSUME Init PROVE ListInv
    OBVIOUS
<1>1. Registered = {} /\ 1..0 = {}
    BY DEF Init, Registered
<1> QED
    BY <1>1 DEF Init, ListInv, ListIsPrefix, AskedInOrder, WalkSoFar

\* Whoever walks the list page by page has seen, at the end, all that was
\* registered at the beginning, however the fleet grew on the way.
THEOREM WalkMissesNothingHolds == Spec => []WalkMissesNothing
<1>1. IInv /\ ListInv /\ [Next]_vars => ListInv'
    BY PrefixStep, OrderStep, WalkStep DEF IInv, ListInv
<1>2. IInv /\ ListInv => WalkMissesNothing
  <2> SUFFICES ASSUME IInv, ListInv, walk.pc = "done", NEW b \in walk.must PROVE b \in walk.seen
    BY DEF WalkMissesNothing
  <2> QED
    BY DEF ListInv, WalkSoFar
<1> QED
    BY <1>1, <1>2, InitList, Invariance, PTL DEF Spec
=============================================================================
