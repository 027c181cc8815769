------------------------------ MODULE Registry ------------------------------
(***************************************************************************)
(* The hub's device registry (internal/store/deviceregistry.go,            *)
(* machineidentity.go), the process table (internal/store/procs.go) and    *)
(* the handlers over them (internal/server/heartbeat.go).  A transaction   *)
(* or an autocommitted statement is one step; a handler that issues        *)
(* several keeps what it read in request[c] in between, where handlers of  *)
(* other connections, enrolments and revocations come in.                  *)
(***************************************************************************)
EXTENDS Integers, FiniteSets

CONSTANTS
    Ids,       \* device ids; an agent may use its machine id as one
    Machines,  \* machine ids
    Tokens,    \* device credentials, by their hash
    Names,     \* display names
    Pids,
    Conns,     \* concurrent requests, a bound of the model
    NoReport,  \* a heartbeat without process state
    MaxTime    \* bound on the hub's clock

ASSUME RegistryAssumption ==
    Machines \subseteq Ids /\ \A pids \in SUBSET Pids : NoReport # pids

VARIABLES
    devices,     \* table devices: a record for each registered id
    bindings,    \* table device_machine_bindings: machine id -> device id
    heartbeats,  \* table device_heartbeats: device id -> received_at
    sessions,    \* table live_sessions, rows [device, pid, at]
    reports,     \* table live_reports: device -> observed_at
    clock,
    request      \* per connection: what its handler does next, and with what

registryVars == <<devices, bindings, heartbeats, sessions, reports, request>>

Idle == [pc |-> "idle"]

\* A table with a primary key is a function on the keys it holds.
Empty == [k \in {} |-> 0]
Upsert(table, key, value) ==
    [k \in DOMAIN table \cup {key} |-> IF k = key THEN value ELSE table[k]]

Registered == DOMAIN devices
ListDevices == Registered
Bound == {bindings[m] : m \in DOMAIN bindings}

\* UNIQUE(token_hash), for a row that is to carry this token.
TokenFree(token, id) == \A d \in Registered \ {id} : devices[d].token # token

\* What a new row holds.
Fresh(token, name) ==
    [token |-> token, name |-> name, seen |-> 0, revokedAt |-> 0]

-----------------------------------------------------------------------------
(* Enrolment and revocation, by the administrator.                         *)

\* Mutant: an unbound principal is taken over without its credential.
AnyAdoption(machine, id, token) == TRUE

\* A first binding of a principal that exists needs its current credential.
Adoptable(machine, id, token) ==
    machine \in DOMAIN bindings \/ devices[id].token = token

\* EnrollMachineDevice, one transaction: a known machine keeps its principal
\* and may rotate the credential; everything refused is a 409.
EnrollMachineDevice(machine, requested, token, name) ==
    LET known == machine \in DOMAIN bindings
        id == IF known THEN bindings[machine] ELSE requested
        exists == id \in Registered
    IN  /\ known => requested \in {id, machine}
        /\ exists => devices[id].revokedAt = 0 /\ Adoptable(machine, id, token)
        /\ TokenFree(token, id)
        /\ known \/ id \notin Bound
        /\ devices' = Upsert(devices, id,
                IF exists THEN [devices[id] EXCEPT !.token = token, !.name = name]
                ELSE Fresh(token, name))
        /\ bindings' = Upsert(bindings, machine, id)
        /\ UNCHANGED <<heartbeats, sessions, reports, request, clock>>

\* handleEnrollV2 without a machine id: DeviceByID decides what comes next.
LookUp(c, id, token, name) ==
    /\ request[c] = Idle
    /\ request' = [request EXCEPT ![c] =
            [pc |-> IF id \in Registered THEN "authenticate" ELSE "register",
             device |-> id, token |-> token, name |-> name]]
    /\ UNCHANGED <<devices, bindings, heartbeats, sessions, reports, clock>>

\* RegisterDevice; the row or the token may have been taken since (409).
RegisterDevice(c) ==
    LET r == request[c]
    IN  /\ r.pc = "register"
        /\ devices' = IF r.device \notin Registered /\ TokenFree(r.token, r.device)
                      THEN Upsert(devices, r.device, Fresh(r.token, r.name))
                      ELSE devices
        /\ request' = [request EXCEPT ![c] = Idle]
        /\ UNCHANGED <<bindings, heartbeats, sessions, reports, clock>>

AuthenticateDevice(id, token) ==
    id \in Registered /\ devices[id].token = token /\ devices[id].revokedAt = 0

\* The second enrolment of an id must know its credential (409).
AuthenticateEnrolment(c) ==
    LET r == request[c]
    IN  /\ r.pc = "authenticate"
        /\ request' = [request EXCEPT ![c] =
                IF AuthenticateDevice(r.device, r.token)
                THEN [pc |-> "rename", device |-> r.device, name |-> r.name]
                ELSE Idle]
        /\ UNCHANGED <<devices, bindings, heartbeats, sessions, reports, clock>>

\* handleRevokeDeviceV2.
RevokeDevice(id) ==
    /\ id \in Registered
    /\ devices' = [devices EXCEPT ![id].revokedAt = clock]
    /\ UNCHANGED <<bindings, heartbeats, sessions, reports, request, clock>>

-----------------------------------------------------------------------------
(* Heartbeats and process reports.                                         *)

\* handleHeartbeatV2 up to the receipt time: the record it authenticated
\* against stays in its hands.
Heartbeat(c, id, token, pids) ==
    /\ request[c] = Idle
    /\ AuthenticateDevice(id, token)
    /\ request' = [request EXCEPT ![c] =
            [pc |-> IF pids = NoReport THEN "save" ELSE "procs", device |-> id,
             name |-> devices[id].name, at |-> clock, pids |-> pids]]
    /\ UNCHANGED <<devices, bindings, heartbeats, sessions, reports, clock>>

\* Mutant: a delayed report is applied like any other.
NeverLate(device, at) == TRUE

\* A report older than the newest one is ignored.
InOrder(device, at) == device \in DOMAIN reports => reports[device] <= at

\* ApplyProcReport, applyProcReportTx: the device's rows become the report's.
\* Rows of the same instant that the report does not list stay.
ApplyProcReport(device, at, pids) ==
    IF InOrder(device, at)
    THEN /\ sessions' = {s \in sessions : s.device = device =>
                                s.at >= at /\ s.pid \notin pids}
                        \cup {[device |-> device, pid |-> p, at |-> at] : p \in pids}
         /\ reports' = Upsert(reports, device, at)
    ELSE UNCHANGED <<sessions, reports>>

\* What the panel takes from the two tables: rows fresh enough to trust.
RunningSessions(since) == {s \in sessions : s.at >= since}
ProcReporters(since) == {d \in DOMAIN reports : reports[d] >= since}

\* LiveProcesses: the agents that run, if the process table can be read.
LiveProcesses == (SUBSET Pids) \cup {NoReport}

\* A report in an ingested batch carries the agent's time: it may be late, and
\* the agent's clock ahead of the hub's.
ReportProcs(device, at, pids) ==
    /\ ApplyProcReport(device, at, pids)
    /\ UNCHANGED <<devices, bindings, heartbeats, request, clock>>

\* A handler's next statement is done.
Advance(c, pc) == request' = [request EXCEPT ![c].pc = pc]

HeartbeatProcs(c) ==
    /\ request[c].pc = "procs"
    /\ ApplyProcReport(request[c].device, request[c].at, request[c].pids)
    /\ Advance(c, "save")
    /\ UNCHANGED <<devices, bindings, heartbeats, clock>>

\* SaveHeartbeat keeps the newest by receipt time.
SaveHeartbeat(c) ==
    LET r == request[c]
    IN  /\ r.pc = "save"
        /\ heartbeats' =
                IF r.device \in DOMAIN heartbeats /\ heartbeats[r.device] > r.at
                THEN heartbeats ELSE Upsert(heartbeats, r.device, r.at)
        /\ Advance(c, "metadata")
        /\ UNCHANGED <<devices, bindings, sessions, reports, clock>>

\* UpdateDeviceMetadata, with the name of the enrolment or, in a heartbeat,
\* the one read when it was authenticated.
UpdateDeviceMetadata(c) ==
    LET r == request[c]
    IN  /\ r.pc \in {"rename", "metadata"}
        /\ devices' = [devices EXCEPT ![r.device].name = r.name]
        /\ request' = [request EXCEPT ![c] =
                IF r.pc = "rename" THEN Idle ELSE [r EXCEPT !.pc = "touch"]]
        /\ UNCHANGED <<bindings, heartbeats, sessions, reports, clock>>

\* TouchDevice's MAX.
Later(old, at) == IF at > old THEN at ELSE old

TouchDevice(c) ==
    LET r == request[c]
    IN  /\ r.pc = "touch"
        /\ devices' = [devices EXCEPT ![r.device].seen = Later(@, r.at)]
        /\ request' = [request EXCEPT ![c] = Idle]
        /\ UNCHANGED <<bindings, heartbeats, sessions, reports, clock>>

\* A statement fails (500) or the hub stops: the rest of the handler is gone.
Abort(c) ==
    /\ request[c] # Idle
    /\ request' = [request EXCEPT ![c] = Idle]
    /\ UNCHANGED <<devices, bindings, heartbeats, sessions, reports, clock>>

HandlerStep(c) ==
    \/ RegisterDevice(c) \/ AuthenticateEnrolment(c)
    \/ HeartbeatProcs(c) \/ SaveHeartbeat(c) \/ UpdateDeviceMetadata(c)
    \/ TouchDevice(c) \/ Abort(c)

Tick ==
    /\ clock < MaxTime
    /\ clock' = clock + 1
    /\ UNCHANGED registryVars
=============================================================================
