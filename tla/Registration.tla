---------------------------- MODULE Registration ----------------------------
(***************************************************************************)
(* How the simulated fleet becomes known to the backend.  A simulator      *)
(* builds its fleet from its configuration, registers the batteries one by *)
(* one, and only then sends telemetry; any answer but a success ends it,   *)
(* and Docker starts it again.  The backend looks a battery up, inserts it *)
(* and commits: three steps, beside those of a request that an earlier     *)
(* simulator sent and no longer waits for.                                 *)
(*                                                                         *)
(* Of the registered fields only profile_type differs between fleets       *)
(* (FleetConfig has one hardware for all), so it stands for all of them.   *)
(***************************************************************************)
EXTENDS Integers, FiniteSets

CONSTANTS Requests,      \* bound: slots for requests the backend has open
          None,
          Configs,       \* the configurations a simulator may be started with
          PageSize,      \* limit of the client that walks the list
          MaxFaults,     \* bound: kills, timeouts, backend errors and crashes
          MaxRedeploys   \* bound: changes of the configuration

ASSUME RegistrationAssumption ==
    /\ None \notin Requests
    /\ None \notin {"RESIDENTIAL", "SOLAR", "COMMERCIAL", "FAULTY"}
    /\ Configs \subseteq [device_count : Nat \ {0}, fault_percent : 0..100]
    /\ PageSize \in Nat \ {0}
    /\ MaxFaults \in Nat /\ MaxRedeploys \in Nat

-----------------------------------------------------------------------------
(***************************************************************************)
(* Fleet composition (fleet.py).                                           *)
(***************************************************************************)

NormalProfiles == <<"RESIDENTIAL", "SOLAR", "COMMERCIAL">>
Profiles == {"RESIDENTIAL", "SOLAR", "COMMERCIAL", "FAULTY"}

\* Python's round(a / b): a half goes to the even neighbour.
RoundHalfEven(a, b) ==
    LET q == a \div b
        r == a % b
    IN  IF 2 * r > b \/ (2 * r = b /\ q % 2 = 1) THEN q + 1 ELSE q

FaultCount(c) == RoundHalfEven(c.device_count * c.fault_percent, 100)

ProfileForIndex(index, c) ==
    IF index < FaultCount(c) THEN "FAULTY"
    ELSE NormalProfiles[((index - FaultCount(c)) % 3) + 1]

\* build_fleet: the battery at index k is called BAT-(k + 1).
Fleet(c) == [b \in 1..c.device_count |-> ProfileForIndex(b - 1, c)]

Ids == UNION {1..c.device_count : c \in Configs}

-----------------------------------------------------------------------------
VARIABLES
    registry,    \* the batteries table: per id its profile, None: no row
    requests,    \* per slot: the POST the backend is working on, or None
    sim,         \* the simulator: "down", "registering" or "running"
    config,      \* the configuration it is started with
    next,        \* the battery it is registering
    awaiting,    \* the request it waits for, or None
    walk,        \* a client that reads the list page by page
    faults, redeploys

simulator == <<sim, next, awaiting>>
vars == <<registry, requests, simulator, config, walk, faults, redeploys>>

Registered == {b \in Ids : registry[b] # None}

\* Its fleet as the running configuration has it, and what it sends of it.
RegisterBattery(b) == [battery |-> b, profile |-> Fleet(config)[b], pc |-> "get"]

Init ==
    /\ registry = [b \in Ids |-> None]
    /\ requests = [r \in Requests |-> None]
    /\ sim = "down" /\ next = 0 /\ awaiting = None
    /\ config \in Configs
    /\ walk = [pc |-> "idle", offset |-> 0, total |-> 0, seen |-> {}, must |-> {}]
    /\ faults = 0 /\ redeploys = 0

-----------------------------------------------------------------------------
(***************************************************************************)
(* The simulator (main.py) and the container that runs it.                 *)
(***************************************************************************)

\* Docker starts the process: it builds its fleet and registers battery 1.
Start ==
    /\ sim = "down"
    /\ \E r \in Requests :
        /\ requests[r] = None
        /\ requests' = [requests EXCEPT ![r] = RegisterBattery(1)]
        /\ awaiting' = r
    /\ sim' = "registering" /\ next' = 1
    /\ UNCHANGED <<registry, config, walk, faults, redeploys>>

Exit == sim' = "down" /\ next' = 0 /\ awaiting' = None

\* Killed, ended by a worker's error, or, while registering, by a timeout: no
\* registration is tried twice.  The backend goes on with what it was sent.
Stop ==
    /\ sim # "down"
    /\ faults < MaxFaults
    /\ faults' = faults + 1
    /\ Exit
    /\ UNCHANGED <<registry, requests, config, walk, redeploys>>

\* Mutant: the new configuration reaches a simulator that is at work.
RedeployInPlace ==
    /\ redeploys < MaxRedeploys
    /\ redeploys' = redeploys + 1
    /\ config' \in Configs
    /\ UNCHANGED <<registry, requests, simulator, walk, faults>>

\* The operator changes DEVICE_COUNT or FAULT_RATE: the container is replaced.
Redeploy ==
    /\ redeploys < MaxRedeploys
    /\ redeploys' = redeploys + 1
    /\ config' \in Configs
    /\ Exit
    /\ UNCHANGED <<registry, requests, walk, faults>>

\* A success: on to the next battery, or, after the last, to telemetry.
RegisterNext(r) ==
    \/ /\ next < config.device_count
       /\ requests' = [requests EXCEPT ![r] = RegisterBattery(next + 1)]
       /\ next' = next + 1
       /\ UNCHANGED <<sim, awaiting>>
    \/ /\ next = config.device_count
       /\ requests' = [requests EXCEPT ![r] = None]
       /\ sim' = "running" /\ awaiting' = None
       /\ UNCHANGED next

-----------------------------------------------------------------------------
(***************************************************************************)
(* The backend (battery_service.py, register_battery).                     *)
(***************************************************************************)

Closed(r) == requests' = [requests EXCEPT ![r] = None]

\* 200 or 201.
Succeed(r) ==
    \/ r = awaiting /\ RegisterNext(r)
    \/ r # awaiting /\ Closed(r) /\ UNCHANGED simulator

\* 409 or 500: raise_for_status() ends the simulator that waits for it.
Reject(r) ==
    /\ Closed(r)
    /\ \/ r = awaiting /\ Exit
       \/ r # awaiting /\ UNCHANGED simulator

At(r, pc) == requests[r] # None /\ requests[r].pc = pc
GoTo(r, pc) == requests' = [requests EXCEPT ![r].pc = pc] /\ UNCHANGED simulator

\* Mutant: a repeated registration is answered without comparing it.
LookUpUnchecked(r) ==
    LET existing == registry[requests[r].battery] IN
    \/ existing = None /\ GoTo(r, "insert")
    \/ existing # None /\ Succeed(r)

\* session.get: no row, the same battery (200), or another one (409).
LookUp(r) ==
    LET existing == registry[requests[r].battery] IN
    \/ existing = None /\ GoTo(r, "insert")
    \/ existing = requests[r].profile /\ Succeed(r)
    \/ existing \notin {None, requests[r].profile} /\ Reject(r)

\* Rows of this battery that others have inserted and not committed.
InsertedBy(r) ==
    {q \in Requests \ {r} : At(q, "commit") /\ requests[q].battery = requests[r].battery}

\* Mutant: no primary key.
InsertUnchecked(r) == GoTo(r, "commit")

\* Mutant: the violated constraint is not answered.
InsertUnanswered(r) ==
    /\ InsertedBy(r) = {}
    /\ registry[requests[r].battery] = None
    /\ GoTo(r, "commit")

\* The INSERT waits for another's of the same key to be decided; a committed
\* row is a violated constraint, which the error handler answers with a 500.
Insert(r) ==
    /\ InsertedBy(r) = {}
    /\ \/ registry[requests[r].battery] = None /\ GoTo(r, "commit")
       \/ registry[requests[r].battery] # None /\ Reject(r)

Commit(r) ==
    /\ registry' = [registry EXCEPT ![requests[r].battery] = requests[r].profile]
    /\ Succeed(r)

Handle(r) ==
    /\ \/ At(r, "get") /\ LookUp(r) /\ UNCHANGED registry
       \/ At(r, "insert") /\ Insert(r) /\ UNCHANGED registry
       \/ At(r, "commit") /\ Commit(r)
    /\ UNCHANGED <<config, walk, faults, redeploys>>

\* The database fails a statement: 500, and nothing is stored, or, when it is
\* the refresh after the commit, the row is.
Fail(r) ==
    /\ requests[r] # None
    /\ faults < MaxFaults
    /\ faults' = faults + 1
    /\ \/ UNCHANGED registry
       \/ /\ At(r, "commit")
          /\ registry' = [registry EXCEPT ![requests[r].battery] = requests[r].profile]
    /\ Reject(r)
    /\ UNCHANGED <<config, walk, redeploys>>

\* The backend dies: what it had open is rolled back, and a simulator that is
\* registering fails to connect.  One that runs goes on trying (Delivery).
BackendCrash ==
    /\ faults < MaxFaults
    /\ faults' = faults + 1
    /\ requests' = [r \in Requests |-> None]
    /\ IF sim = "registering" THEN Exit ELSE UNCHANGED simulator
    /\ UNCHANGED <<registry, config, walk, redeploys>>

-----------------------------------------------------------------------------
(***************************************************************************)
(* A client pages through GET /api/v1/batteries (list_batteries): every    *)
(* page takes two statements, the count and the rows, and the client is    *)
(* done when its offset reaches the total of the last page.                *)
(***************************************************************************)

\* Mutant: the newest battery first.
RowsNewestFirst(offset) ==
    {b \in Registered : Cardinality({a \in Registered : a > b}) \in offset..(offset + PageSize - 1)}

\* ORDER BY battery_id LIMIT PageSize OFFSET offset.
Rows(offset) ==
    {b \in Registered : Cardinality({a \in Registered : a < b}) \in offset..(offset + PageSize - 1)}

WalkBegin ==
    /\ walk.pc = "idle"
    /\ walk' = [walk EXCEPT !.pc = "count", !.must = Registered]

WalkCount ==
    /\ walk.pc = "count"
    /\ walk' = [walk EXCEPT !.pc = "rows", !.total = Cardinality(Registered)]

WalkRows ==
    /\ walk.pc = "rows"
    /\ walk' = [walk EXCEPT !.pc = IF walk.offset + PageSize >= walk.total THEN "done" ELSE "count",
                            !.offset = @ + PageSize,
                            !.seen = @ \cup Rows(walk.offset)]

Walk ==
    /\ WalkBegin \/ WalkCount \/ WalkRows
    /\ UNCHANGED <<registry, requests, simulator, config, faults, redeploys>>

-----------------------------------------------------------------------------
Next ==
    \/ Start \/ Stop \/ Redeploy
    \/ \E r \in Requests : Handle(r) \/ Fail(r)
    \/ BackendCrash
    \/ Walk

Spec == Init /\ [][Next]_vars

\* Docker restarts what has stopped ("restart: unless-stopped"), and the
\* backend goes on with every request it has open.  Nothing is assumed of the
\* client, nor that a fault ever comes.
Fairness == WF_vars(Start) /\ \A r \in Requests : WF_vars(Handle(r))

FairSpec == Spec /\ Fairness

-----------------------------------------------------------------------------
TypeOK ==
    /\ registry \in [Ids -> Profiles \cup {None}]
    /\ requests \in [Requests -> [battery : Ids, profile : Profiles,
                                  pc : {"get", "insert", "commit"}] \cup {None}]
    /\ sim \in {"down", "registering", "running"}
    /\ config \in Configs
    /\ next \in 0..config.device_count
    /\ awaiting \in Requests \cup {None}
    /\ walk.pc \in {"idle", "count", "rows", "done"}
    /\ walk.must \subseteq Ids /\ walk.seen \subseteq Ids
    /\ faults \in 0..MaxFaults /\ redeploys \in 0..MaxRedeploys

\* Telemetry is sent for batteries that are registered, and registered as this
\* simulator has them, whichever requests of earlier simulators or for earlier
\* configurations are still being handled (main.py, "Register every battery
\* before any telemetry is sent for it").
RunningMeansRegistered ==
    sim = "running" => \A b \in 1..config.device_count : registry[b] = Fleet(config)[b]

\* A registered battery is never changed nor forgotten: neither by a repeated
\* registration, nor by two at once, nor by a new configuration
\* (battery_service.py, "MUST NOT silently modify immutable battery identity").
IdentityKept == [][\A b \in Registered : registry'[b] = registry[b]]_vars

\* A walk through the pages shows every battery that was registered when it
\* began, though the fleet grows meanwhile and the total of a page may be older
\* than its rows: the simulator registers in the order of the list.
WalkMissesNothing == walk.pc = "done" => walk.must \subseteq walk.seen

\* The registry holds another battery under one of this fleet's names.
Conflict == \E b \in 1..config.device_count : registry[b] \notin {None, Fleet(config)[b]}

\* When the faults are over, the fleet comes up and stays up, though a
\* simulator may lose the race against its predecessor's requests and be
\* answered 500: unless the registry conflicts with the configuration, which
\* no restart mends (client.py, register_battery).
FleetComesUp == <>[](sim = "running" \/ Conflict)
=============================================================================
