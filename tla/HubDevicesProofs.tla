-------------------------- MODULE HubDevicesProofs --------------------------
(***************************************************************************)
(* The hub's tables about devices are correct for every set of ids, names, *)
(* credentials, events and connections, and for every mix of activities.   *)
(***************************************************************************)
EXTENDS HubDevices, OrderLemmas

DeviceRow == [token : Tokens, name : Names, seen : Nat, revokedAt : Nat]

Enrolment == [pc : {"authenticate", "register"}, device : Ids, token : Tokens, name : Names]
Renaming == [pc : {"rename"}, device : Ids, name : Names]
Beating == [pc : {"procs", "save", "metadata", "touch"}, device : Ids, name : Names,
            at : Nat, pids : LiveProcesses]

Session == [device : Ids, pid : Pids, at : Nat]

Reading == [device : Ids, at : Nat, reset : Nat, percent : Nat]

MergeRecord == [from : Ids, to : Ids, events : Nat, quotas : Nat, dropped : Nat, live : Nat]

Observer == [row : Reading, now : Nat, pc : {"read", "write"}, tokens : Nat]

(***************************************************************************)
(* The registry and the process table.  A report is not newer than itself: *)
(* the rows of a device are those of its one newest report.                *)
(***************************************************************************)
DevicesOK ==
    /\ DOMAIN devices \subseteq Ids
    /\ \A d \in DOMAIN devices : devices[d] \in DeviceRow

BindingsOK ==
    /\ \A m \in DOMAIN bindings : bindings[m] \in Ids
    /\ \A m, n \in DOMAIN bindings : bindings[m] = bindings[n] => m = n

RequestsOK ==
    /\ request \in [Conns -> {Idle} \cup Enrolment \cup Renaming \cup Beating]
    /\ \A c \in Conns : request[c].pc = "procs" => request[c].pids \in SUBSET Pids

ReportsOK ==
    /\ \A d \in DOMAIN reports : reports[d] \in Nat
    /\ sessions \subseteq Session
    /\ IsFiniteSet(sessions)
    /\ \A s \in sessions : s.device \in DOMAIN reports /\ reports[s.device] = s.at

RegistryInv ==
    /\ world \in Worlds
    /\ clock \in Nat \ {0}
    /\ DevicesOK /\ BindingsOK /\ RequestsOK /\ ReportsOK

(***************************************************************************)
(* Names.  The key of a reading is its device and the time of the look.    *)
(***************************************************************************)
EventsOK ==
    /\ DOMAIN events \subseteq Events
    /\ \A e \in DOMAIN events : events[e] \in [device : Ids, origin : {"self", "observed"}]

QuotasOK ==
    /\ quotas \subseteq Reading
    /\ IsFiniteSet(quotas)
    /\ \A q, r \in quotas : q.device = r.device /\ q.at = r.at => q = r

IdentityInv == EventsOK /\ QuotasOK /\ merges \in Seq(MergeRecord)

\* What a name's last merge took away is filed, and where its alias says.
AliasesOK ==
    /\ gone \in [Ids -> SUBSET Events]
    /\ \A d \in Ids : \A e \in gone[d] :
        /\ e \in DOMAIN events /\ d \in DOMAIN Aliases
        /\ events[e].device = Aliases[d]

(***************************************************************************)
(* Calibration.  A reading that could teach something has done so, is      *)
(* being observed, or is left to the backfill.                             *)
(***************************************************************************)
Learnt(q) == q.reset \in DOMAIN capacity /\ capacity[q.reset].peak >= q.percent
Observed(q) == \E o \in observers : Look(o.row) = Look(q)
Outstanding(q) == \E p \in backfill.todo : p.reset = q.reset /\ p.percent >= q.percent

CapacityOK ==
    /\ IsFiniteSet(spent)
    /\ \A reset \in DOMAIN capacity : capacity[reset] \in [peak : Nat, tokens : Nat]
    /\ observers \subseteq Observer
    /\ backfill \in [due : BOOLEAN, todo : SUBSET Reading]

NoneForgotten ==
    \A q \in quotas : Look(q) \notin missed /\ q.percent >= MinPeak =>
        Learnt(q) \/ Observed(q) \/ backfill.due \/ Outstanding(q)

DevicesInv == RegistryInv /\ IdentityInv /\ AliasesOK /\ CapacityOK /\ NoneForgotten

-----------------------------------------------------------------------------
(* Finite sets.                                                            *)

\* The values of a function on a finite set are finitely many, and as many as
\* its arguments if it tells them apart.
LEMMA FiniteRange ==
    ASSUME NEW S, IsFiniteSet(S), NEW f, DOMAIN f = S, f = [x \in S |-> f[x]]
    PROVE  /\ IsFiniteSet({f[x] : x \in S})
           /\ (\A x, y \in S : f[x] = f[y] => x = y)
                  => Cardinality({f[x] : x \in S}) = Cardinality(S)
  <1> DEFINE T == {f[x] : x \in S}
  <1>1. f \in Surjection(S, T)
    BY DEF Surjection
  <1>2. /\ IsFiniteSet(T)
        /\ Cardinality(T) = Cardinality(S) <=> f \in Injection(S, T)
    <2> HIDE DEF T
    <2> QED BY <1>1, FS_Surjection
  <1>3. (\A x, y \in S : f[x] = f[y] => x = y) => f \in Injection(S, T)
    BY <1>1 DEF Surjection, Injection, IsInjective
  <1> QED BY <1>2, <1>3

-----------------------------------------------------------------------------
(* The registry and the process table.                                     *)

\* A step that leaves the tables of the registry alone.
LEMMA QuietRegistry ==
    ASSUME RegistryInv, UNCHANGED <<devices, bindings, sessions, reports, clock, world>>,
           RequestsOK'
    PROVE  RegistryInv'
  BY DEF RegistryInv, DevicesOK, BindingsOK, ReportsOK

\* What the administrator's steps may do to bindings and credentials.
CredentialsKept ==
    /\ \A m \in DOMAIN bindings : m \in DOMAIN bindings' /\ bindings'[m] = bindings[m]
    /\ \A m, n \in DOMAIN bindings' : bindings'[m] = bindings'[n] => m = n
    /\ \A d \in Registered :
        /\ d \in DOMAIN devices'
        /\ devices[d].revokedAt > 0 => devices'[d].revokedAt > 0
        /\ devices'[d].token # devices[d].token =>
                d \in Bound /\ devices[d].revokedAt = 0

\* Nothing happens to either table.
LEMMA QuietCredentials ==
    ASSUME RegistryInv, UNCHANGED <<devices, bindings>>
    PROVE  CredentialsKept
  BY DEF RegistryInv, BindingsOK, CredentialsKept, Registered

\* A machine keeps its device; a device is taken over with its credential only.
LEMMA EnrolMachineKeepsRegistry ==
    ASSUME RegistryInv, NEW machine \in Ids, NEW requested \in Ids, NEW token \in Tokens,
           NEW name \in Names, EnrollMachineDevice(machine, requested, token, name),
           UNCHANGED world
    PROVE  DevicesOK' /\ BindingsOK' /\ CredentialsKept
  <1> DEFINE known == machine \in DOMAIN bindings
             id == IF known THEN bindings[machine] ELSE requested
             exists == id \in Registered
             row == IF exists THEN [devices[id] EXCEPT !.token = token, !.name = name]
                    ELSE Fresh(token, name)
  <1>1. /\ exists => devices[id].revokedAt = 0 /\ (known \/ devices[id].token = token)
        /\ known \/ id \notin Bound
        /\ devices' = Upsert(devices, id, row)
        /\ bindings' = Upsert(bindings, machine, id)
    BY DEF EnrollMachineDevice, Adoptable
  <1>2. DOMAIN devices \subseteq Ids /\ \A d \in DOMAIN devices : devices[d] \in DeviceRow
    BY DEF RegistryInv, DevicesOK
  <1>3. /\ \A m \in DOMAIN bindings : bindings[m] \in Ids
        /\ \A m, n \in DOMAIN bindings : bindings[m] = bindings[n] => m = n
    BY DEF RegistryInv, BindingsOK
  <1>4. id \in Ids /\ (known => id \in Bound)
    BY <1>3 DEF Bound
  <1>5. /\ row \in DeviceRow
        /\ exists => row.revokedAt = devices[id].revokedAt /\ row.token = token
    BY <1>2 DEF DeviceRow, Fresh, Registered
  <1> HIDE DEF row
  <1>6. /\ DOMAIN devices' = DOMAIN devices \cup {id} /\ devices'[id] = row
        /\ \A d \in DOMAIN devices : d # id => devices'[d] = devices[d]
    BY <1>1 DEF Upsert
  <1>7. /\ DOMAIN bindings' = DOMAIN bindings \cup {machine} /\ bindings'[machine] = id
        /\ \A m \in DOMAIN bindings : m # machine => bindings'[m] = bindings[m]
    BY <1>1 DEF Upsert
  <1>8. \A m \in DOMAIN bindings : bindings'[m] = bindings[m]
    BY <1>7
  <1>9. DevicesOK'
    BY <1>2, <1>4, <1>5, <1>6 DEF DevicesOK
  <1>10. \A m \in DOMAIN bindings : bindings[m] = id => m = machine
    BY <1>1, <1>3 DEF Bound
  <1>11. BindingsOK'
    <2> HIDE DEF id, known
    <2> QED BY <1>3, <1>4, <1>7, <1>8, <1>10 DEF BindingsOK
  <1>12. ASSUME NEW d \in Registered
         PROVE  /\ d \in DOMAIN devices'
                /\ devices[d].revokedAt > 0 => devices'[d].revokedAt > 0
                /\ devices'[d].token # devices[d].token =>
                        d \in Bound /\ devices[d].revokedAt = 0
    <2>1. CASE d = id
      BY <1>1, <1>4, <1>5, <1>6, <2>1 DEF Registered
    <2>2. CASE d # id
      BY <1>6, <2>2 DEF Registered
    <2> QED BY <2>1, <2>2
  <1> QED BY <1>7, <1>8, <1>9, <1>11, <1>12 DEF BindingsOK, CredentialsKept

\* Rows of a device are those of its newest report: an older report changes
\* nothing, and a newer one takes the rows of the older away.
LEMMA ApplyKeepsReports ==
    ASSUME ReportsOK, NEW device \in Ids, NEW at \in Nat, NEW pids \in SUBSET Pids,
           ApplyProcReport(device, at, pids)
    PROVE  ReportsOK'
  <1> DEFINE old == {s \in sessions : s.device = device => s.at >= at /\ s.pid \notin pids}
             new == {[device |-> device, pid |-> p, at |-> at] : p \in pids}
  <1>1. CASE ~InOrder(device, at)
    BY <1>1 DEF ApplyProcReport, ReportsOK
  <1>2. CASE InOrder(device, at)
    <2>1. sessions' = old \cup new /\ reports' = Upsert(reports, device, at)
      BY <1>2 DEF ApplyProcReport
    <2>2. /\ DOMAIN reports' = DOMAIN reports \cup {device} /\ reports'[device] = at
          /\ \A d \in DOMAIN reports : d # device => reports'[d] = reports[d]
      BY <2>1 DEF Upsert
    <2>3. \A d \in DOMAIN reports' : reports'[d] \in Nat
      BY <2>2 DEF ReportsOK
    <2>4. sessions' \subseteq Session
      BY <2>1 DEF ReportsOK, Session
    <2>5. IsFiniteSet(sessions')
      <3> DEFINE f == [p \in pids |-> [device |-> device, pid |-> p, at |-> at]]
      <3>1. IsFiniteSet(pids)
        BY HubDevicesConstants, FS_Subset
      <3>2. DOMAIN f = pids /\ f = [p \in pids |-> f[p]] /\ new = {f[p] : p \in pids}
        OBVIOUS
      <3> HIDE DEF f, new
      <3>3. IsFiniteSet({f[p] : p \in pids})
        BY <3>1, <3>2, FiniteRange
      <3>4. IsFiniteSet(old)
        BY FS_Subset DEF ReportsOK
      <3> QED BY <2>1, <3>2, <3>3, <3>4, FS_Union
    <2>6. ASSUME NEW s \in sessions'
          PROVE  s.device \in DOMAIN reports' /\ reports'[s.device] = s.at
      <3>1. CASE s \in new
        BY <2>2, <3>1
      <3>2. CASE s \in old
        <4>1. /\ s.device \in DOMAIN reports /\ reports[s.device] = s.at
              /\ s.at \in Nat
          BY <3>2 DEF ReportsOK, Session
        <4>2. CASE s.device = device
          <5>1. s.at >= at /\ s.at <= at
            BY <1>2, <3>2, <4>1, <4>2 DEF InOrder
          <5> QED BY <2>2, <4>1, <4>2, <5>1
        <4> QED BY <2>2, <4>1, <4>2
      <3> QED BY <2>1, <3>1, <3>2
    <2> QED BY <2>3, <2>4, <2>5, <2>6 DEF ReportsOK
  <1> QED BY <1>1, <1>2

Request == {Idle} \cup Enrolment \cup Renaming \cup Beating

\* A handler's state is replaced by a proper one.
LEMMA SetsRequest ==
    ASSUME RequestsOK, NEW c \in Conns, NEW x \in Request,
           x.pc = "procs" => x.pids \in SUBSET Pids,
           request' = [request EXCEPT ![c] = x]
    PROVE  RequestsOK'
  BY DEF RequestsOK, Request

\* What the stage of a handler says about the fields it has.
LEMMA RequestShapes ==
    ASSUME RequestsOK, NEW c \in Conns
    PROVE  /\ request[c].pc \in {"authenticate", "register"} => request[c] \in Enrolment
           /\ request[c].pc = "rename" => request[c] \in Renaming
           /\ request[c].pc \in {"procs", "save", "metadata", "touch"}
                  => request[c] \in Beating
  BY DEF RequestsOK, Idle, Enrolment, Renaming, Beating

\* One row changes, and neither its credential nor its revocation is undone.
LEMMA RowKeepsRegistry ==
    ASSUME RegistryInv, NEW d \in Ids, NEW row \in DeviceRow,
           \/ /\ d \in DOMAIN devices
              /\ devices' = [devices EXCEPT ![d] = row]
              /\ row.token = devices[d].token
              /\ row.revokedAt >= devices[d].revokedAt
           \/ d \notin DOMAIN devices /\ devices' = Upsert(devices, d, row),
           UNCHANGED bindings
    PROVE  DevicesOK' /\ BindingsOK' /\ CredentialsKept
  <1>1. DOMAIN devices \subseteq Ids /\ \A e \in DOMAIN devices : devices[e] \in DeviceRow
    BY DEF RegistryInv, DevicesOK
  <1>2. /\ DOMAIN devices' = DOMAIN devices \cup {d} /\ devices'[d] = row
        /\ \A e \in DOMAIN devices : e # d => devices'[e] = devices[e]
    BY DEF Upsert
  <1>3. DevicesOK'
    BY <1>1, <1>2 DEF DevicesOK
  <1>4. BindingsOK'
    BY DEF RegistryInv, BindingsOK
  <1>5. ASSUME NEW e \in DOMAIN devices
        PROVE  /\ devices[e].revokedAt > 0 => devices'[e].revokedAt > 0
               /\ devices'[e].token = devices[e].token
    BY <1>1, <1>2 DEF DeviceRow
  <1>6. \A m \in DOMAIN bindings : m \in DOMAIN bindings' /\ bindings'[m] = bindings[m]
    OBVIOUS
  <1> QED BY <1>2, <1>3, <1>4, <1>5, <1>6 DEF CredentialsKept, BindingsOK, Registered

\* A step of a handler.
LEMMA HandlerKeepsRegistry ==
    ASSUME RegistryInv, NEW c \in Conns, HandlerStep(c), UNCHANGED world
    PROVE  RegistryInv' /\ CredentialsKept
  <1> DEFINE r == request[c]
  <1>0. RequestsOK /\ DevicesOK /\ ReportsOK /\ Idle \in Request /\ Idle.pc = "idle"
            /\ clock \in Nat \ {0} /\ world \in Worlds
    BY DEF RegistryInv, Request, Idle
  <1>1. CASE RegisterDevice(c)
    <2>1. r \in Enrolment
      BY <1>0, <1>1, RequestShapes DEF RegisterDevice
    <2>2. r.device \in Ids /\ Fresh(r.token, r.name) \in DeviceRow
      BY <2>1 DEF Enrolment, Fresh, DeviceRow
    <2>3. RequestsOK' /\ UNCHANGED <<bindings, sessions, reports, clock>>
      BY <1>0, <1>1, SetsRequest DEF RegisterDevice
    <2>4. ReportsOK'
      BY <1>0, <2>3 DEF ReportsOK
    <2>5. CASE UNCHANGED devices
      BY <2>3, <2>5, QuietRegistry, QuietCredentials
    <2>6. CASE r.device \notin Registered
                   /\ devices' = Upsert(devices, r.device, Fresh(r.token, r.name))
      <3>1. DevicesOK' /\ BindingsOK' /\ CredentialsKept
        BY <2>2, <2>3, <2>6, RowKeepsRegistry DEF Registered
      <3> QED BY <1>0, <2>3, <2>4, <3>1 DEF RegistryInv
    <2> QED BY <1>1, <2>5, <2>6 DEF RegisterDevice
  <1>2. CASE AuthenticateEnrolment(c)
    <2>1. r \in Enrolment
      BY <1>0, <1>2, RequestShapes DEF AuthenticateEnrolment
    <2> DEFINE x == [pc |-> "rename", device |-> r.device, name |-> r.name]
    <2>2. x \in Renaming /\ x.pc = "rename"
      BY <2>1 DEF Enrolment, Renaming
    <2>3. request' = [request EXCEPT ![c] = x] \/ request' = [request EXCEPT ![c] = Idle]
      BY <1>2 DEF AuthenticateEnrolment
    <2> HIDE DEF x
    <2>4. RequestsOK'
      BY <1>0, <2>2, <2>3, SetsRequest DEF Request
    <2> QED BY <1>2, <2>4, QuietRegistry, QuietCredentials DEF AuthenticateEnrolment
  <1>3. CASE HeartbeatProcs(c)
    <2>1. r \in Beating /\ r.pids \in SUBSET Pids
      BY <1>0, <1>3, RequestShapes DEF HeartbeatProcs, RequestsOK
    <2> DEFINE x == [r EXCEPT !.pc = "save"]
    <2>2. x \in Beating /\ x.pc = "save" /\ r.device \in Ids /\ r.at \in Nat
      BY <2>1 DEF Beating
    <2>3. request' = [request EXCEPT ![c] = x]
      BY <1>3 DEF HeartbeatProcs, Advance
    <2> HIDE DEF x
    <2>4. RequestsOK'
      BY <1>0, <2>2, <2>3, SetsRequest DEF Request
    <2>5. ReportsOK'
      BY <1>0, <1>3, <2>1, <2>2, ApplyKeepsReports DEF HeartbeatProcs
    <2>6. UNCHANGED <<devices, bindings, clock>>
      BY <1>3 DEF HeartbeatProcs
    <2> QED BY <1>0, <2>4, <2>5, <2>6, QuietCredentials
            DEF RegistryInv, DevicesOK, BindingsOK
  <1>4. CASE SaveHeartbeat(c)
    <2>1. r \in Beating
      BY <1>0, <1>4, RequestShapes DEF SaveHeartbeat
    <2> DEFINE x == [r EXCEPT !.pc = "metadata"]
    <2>2. x \in Beating /\ x.pc = "metadata"
      BY <2>1 DEF Beating
    <2>3. request' = [request EXCEPT ![c] = x]
      BY <1>4 DEF SaveHeartbeat, Advance
    <2> HIDE DEF x
    <2>4. RequestsOK'
      BY <1>0, <2>2, <2>3, SetsRequest DEF Request
    <2> QED BY <1>4, <2>4, QuietRegistry, QuietCredentials DEF SaveHeartbeat
  <1>5. CASE UpdateDeviceMetadata(c)
    <2>1. /\ r.pc \in {"rename", "metadata"} /\ UNCHANGED <<bindings, sessions, reports, clock>>
          /\ devices' = [devices EXCEPT ![r.device].name = r.name]
      BY <1>5 DEF UpdateDeviceMetadata
    <2>2. r \in Renaming \/ r \in Beating
      BY <1>0, <2>1, RequestShapes
    <2>3. r.device \in Ids /\ r.name \in Names
      BY <2>2 DEF Renaming, Beating
    <2>4. RequestsOK'
      <3>1. CASE r.pc = "rename"
        BY <1>0, <1>5, <3>1, SetsRequest DEF UpdateDeviceMetadata
      <3>2. CASE r.pc = "metadata"
        <4> DEFINE x == [r EXCEPT !.pc = "touch"]
        <4>1. x \in Beating /\ x.pc = "touch"
          BY <2>2, <3>2 DEF Beating, Renaming
        <4>2. request' = [request EXCEPT ![c] = x]
          BY <1>5, <3>2 DEF UpdateDeviceMetadata
        <4> HIDE DEF x
        <4> QED BY <1>0, <4>1, <4>2, SetsRequest DEF Request
      <3> QED BY <2>1, <3>1, <3>2
    <2>5. CASE r.device \in DOMAIN devices
      <3> DEFINE row == [devices[r.device] EXCEPT !.name = r.name]
      <3>1. devices[r.device] \in DeviceRow
        BY <1>0, <2>5 DEF DevicesOK
      <3>2. row \in DeviceRow /\ row.token = devices[r.device].token
                /\ row.revokedAt >= devices[r.device].revokedAt
        BY <2>3, <3>1 DEF DeviceRow
      <3>3. devices' = [devices EXCEPT ![r.device] = row]
        BY <2>1
      <3> HIDE DEF row
      <3>4. DevicesOK' /\ BindingsOK' /\ CredentialsKept
        BY <2>1, <2>3, <2>5, <3>2, <3>3, RowKeepsRegistry
      <3>5. ReportsOK'
        BY <1>0, <2>1 DEF ReportsOK
      <3> QED BY <1>0, <2>1, <2>4, <3>4, <3>5 DEF RegistryInv
    <2>6. CASE r.device \notin DOMAIN devices
      <3>1. /\ DOMAIN devices' = DOMAIN devices
            /\ \A d \in DOMAIN devices : devices'[d] = devices[d]
        BY <2>1, <2>6
      <3>2. DevicesOK' /\ BindingsOK' /\ ReportsOK'
        BY <1>0, <2>1, <3>1 DEF RegistryInv, DevicesOK, BindingsOK, ReportsOK
      <3>3. CredentialsKept
        BY <2>1, <3>1 DEF RegistryInv, BindingsOK, CredentialsKept, Registered
      <3> QED BY <1>0, <2>1, <2>4, <3>2, <3>3 DEF RegistryInv
    <2> QED BY <2>5, <2>6
  <1>6. CASE TouchDevice(c)
    <2>1. /\ UNCHANGED <<bindings, sessions, reports, clock>>
          /\ devices' = [devices EXCEPT ![r.device].seen = Later(@, r.at)]
          /\ r \in Beating
      BY <1>0, <1>6, RequestShapes DEF TouchDevice
    <2>2. r.device \in Ids /\ r.at \in Nat
      BY <2>1 DEF Beating
    <2>3. RequestsOK' /\ ReportsOK'
      BY <1>0, <1>6, <2>1, SetsRequest DEF TouchDevice, ReportsOK
    <2>4. CASE r.device \in DOMAIN devices
      <3> DEFINE row == [devices[r.device] EXCEPT !.seen = Later(@, r.at)]
      <3>1. devices[r.device] \in DeviceRow
        BY <1>0, <2>4 DEF DevicesOK
      <3>2. row \in DeviceRow /\ row.token = devices[r.device].token
                /\ row.revokedAt >= devices[r.device].revokedAt
        BY <2>2, <3>1 DEF DeviceRow, Later
      <3>3. devices' = [devices EXCEPT ![r.device] = row]
        BY <2>1
      <3> HIDE DEF row
      <3>4. DevicesOK' /\ BindingsOK' /\ CredentialsKept
        BY <2>1, <2>2, <2>4, <3>2, <3>3, RowKeepsRegistry
      <3> QED BY <1>0, <2>1, <2>3, <3>4 DEF RegistryInv
    <2>5. CASE r.device \notin DOMAIN devices
      <3>1. /\ DOMAIN devices' = DOMAIN devices
            /\ \A d \in DOMAIN devices : devices'[d] = devices[d]
        BY <2>1, <2>5
      <3>2. DevicesOK' /\ BindingsOK'
        BY <1>0, <2>1, <3>1 DEF RegistryInv, DevicesOK, BindingsOK
      <3>3. CredentialsKept
        BY <2>1, <3>1 DEF RegistryInv, BindingsOK, CredentialsKept, Registered
      <3> QED BY <1>0, <2>1, <2>3, <3>2, <3>3 DEF RegistryInv
    <2> QED BY <2>4, <2>5
  <1>7. CASE Abort(c)
    BY <1>0, <1>7, SetsRequest, QuietRegistry, QuietCredentials DEF Abort
  <1> QED BY <1>1, <1>2, <1>3, <1>4, <1>5, <1>6, <1>7 DEF HandlerStep

\* Every step of RegistryStep.
LEMMA RegistryStepKeepsRegistry ==
    ASSUME RegistryInv, RegistryStep
    PROVE  RegistryInv' /\ CredentialsKept
  <1>0. /\ RequestsOK /\ DevicesOK /\ ReportsOK /\ UNCHANGED world /\ world \in Worlds
        /\ clock \in Nat \ {0}
    BY DEF RegistryInv, RegistryStep
  <1>1. world.ids \subseteq Ids
    BY <1>0, HubDevicesConstants
  <1>2. CASE EnrolMachine
    <2>1. PICK m \in Machines \cap world.ids, id \in world.ids, t \in Tokens, n \in Names :
              EnrollMachineDevice(m, id, t, n)
      BY <1>2 DEF EnrolMachine
    <2>2. DevicesOK' /\ BindingsOK' /\ CredentialsKept
      BY <1>0, <1>1, <2>1, EnrolMachineKeepsRegistry
    <2>3. UNCHANGED <<sessions, reports, request, clock>>
      BY <2>1 DEF EnrollMachineDevice
    <2>4. RequestsOK' /\ ReportsOK'
      BY <1>0, <2>3 DEF RequestsOK, ReportsOK
    <2> QED BY <1>0, <2>2, <2>3, <2>4 DEF RegistryInv
  <1>3. CASE EnrolDevice
    <2>1. PICK c \in Conns, id \in world.ids, t \in Tokens, n \in Names : LookUp(c, id, t, n)
      BY <1>3 DEF EnrolDevice
    <2> DEFINE x == [pc |-> IF id \in Registered THEN "authenticate" ELSE "register",
                     device |-> id, token |-> t, name |-> n]
    <2>2. x \in Enrolment /\ x.pc # "procs"
      BY <1>1, <2>1 DEF Enrolment
    <2>3. request' = [request EXCEPT ![c] = x]
      BY <2>1 DEF LookUp
    <2> HIDE DEF x
    <2>4. RequestsOK'
      BY <1>0, <2>1, <2>2, <2>3, SetsRequest DEF Request
    <2> QED BY <1>0, <2>1, <2>4, QuietRegistry, QuietCredentials DEF LookUp
  <1>4. CASE Revoke
    <2>1. PICK id \in world.ids : RevokeDevice(id)
      BY <1>4 DEF Revoke
    <2>2. /\ id \in DOMAIN devices /\ devices' = [devices EXCEPT ![id].revokedAt = clock]
          /\ UNCHANGED <<bindings, sessions, reports, request, clock>>
      BY <2>1 DEF RevokeDevice, Registered
    <2>3. devices[id] \in DeviceRow
      BY <1>0, <2>2 DEF DevicesOK
    <2>4. DevicesOK'
      BY <1>0, <2>2, <2>3 DEF DevicesOK, DeviceRow
    <2>5. RequestsOK' /\ ReportsOK' /\ BindingsOK'
      BY <1>0, <2>2 DEF RegistryInv, RequestsOK, ReportsOK, BindingsOK
    <2>6. \A d \in DOMAIN devices : /\ d \in DOMAIN devices'
                                    /\ devices'[d].token = devices[d].token
                                    /\ devices[d].revokedAt > 0 => devices'[d].revokedAt > 0
      BY <1>0, <2>2 DEF DevicesOK, DeviceRow
    <2>7. CredentialsKept
      BY <2>2, <2>6 DEF RegistryInv, BindingsOK, CredentialsKept, Registered
    <2> QED BY <1>0, <2>2, <2>4, <2>5, <2>7 DEF RegistryInv
  <1>5. CASE Beat
    <2>1. PICK c \in Conns, id \in world.ids, t \in Tokens, p \in LiveProcesses :
              Heartbeat(c, id, t, p)
      BY <1>5 DEF Beat
    <2> DEFINE x == [pc |-> IF p = NoReport THEN "save" ELSE "procs", device |-> id,
                     name |-> devices[id].name, at |-> clock, pids |-> p]
    <2>2. devices[id].name \in Names
      BY <1>0, <2>1 DEF Heartbeat, AuthenticateDevice, DevicesOK, DeviceRow, Registered
    <2>3. x \in Beating /\ (x.pc = "procs" => x.pids \in SUBSET Pids)
      BY <1>0, <1>1, <2>1, <2>2 DEF Beating, LiveProcesses
    <2>4. request' = [request EXCEPT ![c] = x]
      BY <2>1 DEF Heartbeat
    <2> HIDE DEF x
    <2>5. RequestsOK'
      BY <1>0, <2>1, <2>3, <2>4, SetsRequest DEF Request
    <2> QED BY <1>0, <2>1, <2>5, QuietRegistry, QuietCredentials DEF Heartbeat
  <1>6. CASE Report
    <2>1. PICK id \in world.ids, at \in 1..MaxTime, p \in LiveProcesses \ {NoReport} :
              ReportProcs(id, at, p)
      BY <1>6 DEF Report
    <2>2. id \in Ids /\ at \in Nat /\ p \in SUBSET Pids
      BY <1>1, <2>1 DEF LiveProcesses
    <2>3. ReportsOK'
      BY <1>0, <2>1, <2>2, ApplyKeepsReports DEF ReportProcs
    <2>4. UNCHANGED <<devices, bindings, request, clock>>
      BY <2>1 DEF ReportProcs
    <2> QED BY <1>0, <2>3, <2>4, QuietCredentials
            DEF RegistryInv, DevicesOK, BindingsOK, RequestsOK
  <1>7. CASE Handle
    BY <1>0, <1>7, HandlerKeepsRegistry DEF Handle
  <1>8. CASE Tick
    <2>1. UNCHANGED <<devices, bindings, sessions, reports, request>>
              /\ clock' \in Nat \ {0}
      BY <1>0, <1>8 DEF Tick, registryVars
    <2> QED BY <1>0, <2>1, QuietCredentials
            DEF RegistryInv, DevicesOK, BindingsOK, RequestsOK, ReportsOK
  <1> QED BY <1>2, <1>3, <1>4, <1>5, <1>6, <1>7, <1>8 DEF RegistryStep

\* A merge takes the source's rows and its report away together.
LEMMA MergeKeepsRegistry ==
    ASSUME RegistryInv, NEW from \in Ids, NEW to \in Ids, MergeDeviceIdentity(from, to),
           UNCHANGED world
    PROVE  RegistryInv' /\ CredentialsKept
  <1>1. /\ UNCHANGED <<devices, bindings, request, clock>>
        /\ sessions' = sessions \ SessionsOf(from)
        /\ reports' = [n \in DOMAIN reports \ {from} |-> reports[n]]
    BY DEF MergeDeviceIdentity
  <1>2. ReportsOK'
    <2>1. sessions' \subseteq sessions /\ \A s \in sessions' : s.device # from
      BY <1>1 DEF SessionsOf
    <2>2. IsFiniteSet(sessions')
      BY <2>1, FS_Subset DEF RegistryInv, ReportsOK
    <2>3. \A d \in DOMAIN reports' : d \in DOMAIN reports /\ reports'[d] = reports[d]
      BY <1>1
    <2>4. \A s \in sessions' : s.device \in DOMAIN reports'
      BY <1>1, <2>1 DEF RegistryInv, ReportsOK
    <2> QED BY <2>1, <2>2, <2>3, <2>4 DEF RegistryInv, ReportsOK
  <1> QED BY <1>1, <1>2, QuietCredentials
          DEF RegistryInv, DevicesOK, BindingsOK, RequestsOK

-----------------------------------------------------------------------------
(* Names and their merge.                                                  *)

\* A reading is added under a new key.
LEMMA InsertKeepsQuotas ==
    ASSUME QuotasOK, NEW q \in Reading, NewKey(q), quotas' = quotas \cup {q}
    PROVE  QuotasOK'
  <1>1. IsFiniteSet(quotas')
    BY FS_AddElement DEF QuotasOK
  <1>2. \A r \in quotas : ~(r.device = q.device /\ r.at = q.at)
    BY DEF NewKey
  <1> QED BY <1>1, <1>2 DEF QuotasOK

\* What the merge of two names does to the readings: the target's stay, each
\* of the source's is there under the target unless the target has that look,
\* and the number of rows that are gone is the number of such looks.
LEMMA MergeKeepsQuotas ==
    ASSUME QuotasOK, NEW from \in Ids, NEW to \in Ids, from # to,
           quotas' = Moved(quotas \ Dropped(from, to), from, to)
    PROVE  /\ QuotasOK'
           /\ \A d \in Ids : d # from => QuotasOf(d) \subseteq quotas'
           /\ \A q \in QuotasOf(from) : \E r \in quotas' : r.device = to /\ r.at = q.at
           /\ \A q \in quotas' : q.device # from
           /\ \A r \in quotas' : \E q \in quotas : Look(q) = Look(r)
           /\ Cardinality(quotas) - Cardinality(quotas') = Cardinality(Collisions(from, to))
  <1> DEFINE kept == quotas \ Collisions(from, to)
             move(q) == IF q.device = from THEN [q EXCEPT !.device = to] ELSE q
             f == [q \in kept |-> move(q)]
  <1>1. quotas \subseteq Reading /\ IsFiniteSet(quotas)
            /\ \A q, r \in quotas : q.device = r.device /\ q.at = r.at => q = r
    BY DEF QuotasOK
  <1>2. quotas' = {move(q) : q \in kept}
    BY DEF Moved, Dropped
  <1>3. ASSUME NEW q \in quotas
        PROVE  /\ move(q) \in Reading /\ move(q).device # from
               /\ move(q).device = IF q.device = from THEN to ELSE q.device
               /\ move(q).at = q.at /\ move(q).reset = q.reset
               /\ move(q).percent = q.percent
    BY <1>1 DEF Reading
  <1>4. ASSUME NEW q \in kept, NEW r \in kept,
               move(q).device = move(r).device, move(q).at = move(r).at
        PROVE  q = r
    <2>1. q \in quotas /\ r \in quotas /\ q.at = r.at
      BY <1>3, <1>4
    <2>2. ~(q.device = from /\ r.device = to) /\ ~(r.device = from /\ q.device = to)
      BY <2>1 DEF Collisions, QuotasOf
    <2>3. q.device = r.device
      BY <1>3, <1>4, <2>1, <2>2
    <2> QED BY <1>1, <2>1, <2>3
  <1>5. IsFiniteSet(kept) /\ Cardinality(kept)
            = Cardinality(quotas) - Cardinality(Collisions(from, to))
    <2>1. Collisions(from, to) = quotas \cap Collisions(from, to)
      BY DEF Collisions, QuotasOf
    <2> QED BY <1>1, <2>1, FS_Difference, ZenonT(30)
  <1>6. IsFiniteSet(quotas') /\ Cardinality(quotas') = Cardinality(kept)
    <2>1. DOMAIN f = kept /\ f = [q \in kept |-> f[q]] /\ quotas' = {f[q] : q \in kept}
      BY <1>2
    <2>2. \A q, r \in kept : f[q] = f[r] => q = r
      <3> SUFFICES ASSUME NEW q \in kept, NEW r \in kept, f[q] = f[r] PROVE q = r
        OBVIOUS
      <3>1. move(q) = move(r)
        OBVIOUS
      <3> HIDE DEF move
      <3> QED BY <1>4, <3>1
    <2> HIDE DEF f, kept
    <2>3. /\ IsFiniteSet({f[q] : q \in kept})
          /\ (\A q, r \in kept : f[q] = f[r] => q = r)
                 => Cardinality({f[q] : q \in kept}) = Cardinality(kept)
      BY <1>5, <2>1, FiniteRange
    <2> QED BY <2>1, <2>2, <2>3
  <1>7. Cardinality(quotas) - Cardinality(quotas') = Cardinality(Collisions(from, to))
    <2>1. Cardinality(quotas) \in Nat /\ IsFiniteSet(Collisions(from, to))
      BY <1>1, FS_CardinalityType, FS_Subset DEF Collisions, QuotasOf
    <2>2. Cardinality(Collisions(from, to)) \in Nat
      BY <2>1, FS_CardinalityType
    <2> QED BY <1>5, <1>6, <2>1, <2>2
  <1> HIDE DEF move
  <1>8. QuotasOK'
    <2>1. quotas' \subseteq Reading
      BY <1>2, <1>3
    <2>2. ASSUME NEW x \in quotas', NEW y \in quotas', x.device = y.device, x.at = y.at
          PROVE  x = y
      <3>1. PICK q \in kept : x = move(q)
        BY <1>2
      <3>2. PICK r \in kept : y = move(r)
        BY <1>2
      <3>3. q = r
        BY <1>4, <2>2, <3>1, <3>2
      <3> QED BY <3>1, <3>2, <3>3
    <2> QED BY <1>6, <2>1, <2>2 DEF QuotasOK
  <1>9. ASSUME NEW d \in Ids, d # from, NEW q \in QuotasOf(d) PROVE q \in quotas'
    <2>1. q \in quotas /\ q.device = d /\ q \in kept
      BY <1>9 DEF QuotasOf, Collisions
    <2>2. move(q) = q
      BY <1>9, <2>1 DEF move
    <2> QED BY <1>2, <2>1, <2>2
  <1>10. ASSUME NEW q \in QuotasOf(from)
         PROVE  \E r \in quotas' : r.device = to /\ r.at = q.at
    <2>1. q \in quotas /\ q.device = from
      BY DEF QuotasOf
    <2>2. CASE q \in Collisions(from, to)
      <3>1. PICK r \in QuotasOf(to) : r.at = q.at
        BY <2>2 DEF Collisions
      <3> QED BY <1>9, <3>1 DEF QuotasOf
    <2>3. CASE q \notin Collisions(from, to)
      BY <1>2, <1>3, <2>1, <2>3
    <2> QED BY <2>2, <2>3
  <1>11. \A q \in quotas' : q.device # from
    BY <1>2, <1>3
  <1>12. ASSUME NEW r \in quotas' PROVE \E q \in quotas : Look(q) = Look(r)
    <2>1. PICK q \in kept : r = move(q)
      BY <1>2
    <2> QED BY <1>3, <2>1 DEF Look
  <1> QED BY <1>7, <1>8, <1>9, <1>10, <1>11, <1>12

\* The audit record of a merge counts finite sets.
LEMMA PlanIsRecord ==
    ASSUME RegistryInv, IdentityInv, NEW from \in Ids, NEW to \in Ids
    PROVE  DeviceMergePlan(from, to) \in MergeRecord
  <1>1. \A S : IsFiniteSet(S) => Cardinality(S) \in Nat
    BY FS_CardinalityType
  <1>2. IsFiniteSet(EventsOf(from))
    <2>1. EventsOf(from) \in SUBSET Events
      BY DEF EventsOf, IdentityInv, EventsOK
    <2> QED BY <2>1, HubDevicesConstants, FS_Subset
  <1>3. IsFiniteSet(QuotasOf(from) \ Collisions(from, to))
    <2>1. (QuotasOf(from) \ Collisions(from, to)) \in SUBSET quotas
      BY DEF QuotasOf
    <2> QED BY <2>1, FS_Subset DEF IdentityInv, QuotasOK
  <1>4. IsFiniteSet(Collisions(from, to))
    <2>1. Collisions(from, to) \in SUBSET quotas
      BY DEF Collisions, QuotasOf
    <2> QED BY <2>1, FS_Subset DEF IdentityInv, QuotasOK
  <1>5. IsFiniteSet(SessionsOf(from))
    <2>1. SessionsOf(from) \in SUBSET sessions
      BY DEF SessionsOf
    <2> QED BY <2>1, FS_Subset DEF RegistryInv, ReportsOK
  <1>6. (Cardinality(SessionsOf(from)) + (IF from \in DOMAIN reports THEN 1 ELSE 0)) \in Nat
    BY <1>1, <1>5
  <1> QED BY <1>1, <1>2, <1>3, <1>4, <1>6 DEF DeviceMergePlan, MergeRecord

\* What a merge owes, by its audit record.
MergeAccounted ==
    LET m == merges'[Len(merges')]
    IN  /\ DOMAIN events' = DOMAIN events
        /\ \A e \in DOMAIN events :
            /\ events'[e].origin = events[e].origin
            /\ events'[e].device = IF events[e].device = m.from THEN m.to
                                   ELSE events[e].device
        /\ QuotasOf(m.to) \subseteq quotas'
        /\ \A q \in QuotasOf(m.from) : \E r \in quotas' :
                r.device = m.to /\ r.at = q.at
        /\ \A q, r \in quotas' : q.device = r.device /\ q.at = r.at => q = r
        /\ Cardinality(quotas) - Cardinality(quotas') = m.dropped
        /\ \A d \in Ids : d = m.from => ~DeviceIdentityExists(d)'
        /\ m.from \notin DOMAIN labels'

\* A merge moves everything and leaves nothing under the source.
LEMMA MergeKeepsIdentities ==
    ASSUME RegistryInv, IdentityInv, NEW from \in Ids, NEW to \in Ids,
           MergeDeviceIdentity(from, to)
    PROVE  /\ IdentityInv'
           /\ MergeAccounted
           /\ merges'[Len(merges')].from = from /\ from # to
  <1> DEFINE plan == DeviceMergePlan(from, to)
  <1>1. /\ from # to /\ merges' = Append(merges, plan)
        /\ quotas' = Moved(quotas \ Dropped(from, to), from, to)
        /\ sessions' = sessions \ SessionsOf(from)
        /\ reports' = [n \in DOMAIN reports \ {from} |-> reports[n]]
        /\ events' = [e \in DOMAIN events |->
                IF e \in EventsOf(from) THEN [events[e] EXCEPT !.device = to]
                ELSE events[e]]
        /\ labels' = MergedLabels(from, to)
    BY DEF MergeDeviceIdentity
  <1>2. plan \in MergeRecord
    BY PlanIsRecord
  <1>3. merges \in Seq(MergeRecord)
    BY DEF IdentityInv
  <1>4. merges' \in Seq(MergeRecord) /\ merges'[Len(merges')] = plan
    <2> HIDE DEF plan
    <2> QED BY <1>1, <1>2, <1>3
  <1>5. /\ plan.from = from /\ plan.to = to
        /\ plan.dropped = Cardinality(Collisions(from, to))
    BY DEF DeviceMergePlan
  <1>6. /\ DOMAIN events' = DOMAIN events
        /\ \A e \in DOMAIN events :
            /\ events'[e] \in [device : Ids, origin : {"self", "observed"}]
            /\ events'[e].origin = events[e].origin
            /\ events'[e].device = IF events[e].device = from THEN to ELSE events[e].device
    BY <1>1 DEF IdentityInv, EventsOK, EventsOf
  <1>7. /\ QuotasOK'
        /\ QuotasOf(to) \subseteq quotas'
        /\ \A q \in QuotasOf(from) : \E r \in quotas' : r.device = to /\ r.at = q.at
        /\ \A q \in quotas' : q.device # from
        /\ Cardinality(quotas) - Cardinality(quotas') = Cardinality(Collisions(from, to))
    BY <1>1, MergeKeepsQuotas, ZenonT(30) DEF IdentityInv
  <1>8. IdentityInv'
    BY <1>4, <1>6, <1>7 DEF IdentityInv, EventsOK
  <1>9. ~DeviceIdentityExists(from)'
    <2>1. \A e \in DOMAIN events' : events'[e].device # from
      BY <1>1, <1>6
    <2>2. from \notin DOMAIN reports' /\ \A s \in sessions' : s.device # from
      BY <1>1 DEF SessionsOf
    <2> QED BY <1>7, <2>1, <2>2 DEF DeviceIdentityExists, EventsOf, QuotasOf, SessionsOf
  <1>10. from \notin DOMAIN labels'
    BY <1>1 DEF MergedLabels
  <1> HIDE DEF plan
  <1>11. MergeAccounted
    BY <1>4, <1>5, <1>6, <1>7, <1>9, <1>10 DEF MergeAccounted, QuotasOK
  <1> QED BY <1>1, <1>4, <1>5, <1>8, <1>11

\* An event is filed, or claimed by its own device.
LEMMA ArriveKeepsIdentities ==
    ASSUME RegistryInv, IdentityInv, Arrive
    PROVE  IdentityInv' /\ merges' = merges /\ quotas' = quotas
  <1>1. world.ids \subseteq Ids
    BY HubDevicesConstants DEF RegistryInv
  <1>2. PICK e \in Events, d \in world.ids, origin \in {"self", "observed"} :
            FileEvent(e, d, origin)
    BY DEF Arrive
  <1>3. /\ events' = Upsert(events, e, [device |-> d, origin |-> origin])
        /\ UNCHANGED <<quotas, merges>>
    BY <1>2 DEF FileEvent
  <1>4. EventsOK'
    BY <1>1, <1>2, <1>3 DEF IdentityInv, EventsOK, Upsert
  <1> QED BY <1>3, <1>4 DEF IdentityInv, QuotasOK

-----------------------------------------------------------------------------
(* The aliases, folded out of the audit log.                               *)

\* The value after record n of a log, by the values before.
Folds(f, log, n) == f[n] = IF n = 0 THEN Empty ELSE Follow(f[n - 1], log[n])

\* Two folds of one log agree.
LEMMA FoldsAgree ==
    ASSUME NEW log, NEW N \in Nat, NEW f, NEW g,
           \A n \in 0..N : Folds(f, log, n) /\ Folds(g, log, n)
    PROVE  f[N] = g[N]
  <1> DEFINE differ == {n \in 0..N : f[n] # g[n]}
  <1>1. SUFFICES ASSUME differ # {} PROVE FALSE
    OBVIOUS
  <1>2. PICK k \in differ : \A n \in differ : k <= n
    <2>1. differ \in SUBSET Nat
      OBVIOUS
    <2> HIDE DEF differ
    <2> QED BY <1>1, <2>1, LeastNatural
  <1>3. Folds(f, log, k) /\ Folds(g, log, k)
    OBVIOUS
  <1>4. CASE k = 0
    BY <1>3, <1>4 DEF Folds
  <1>5. CASE k # 0
    <2>1. k - 1 \in 0..N /\ k - 1 \notin differ
      BY <1>2, <1>5
    <2>2. f[k - 1] = g[k - 1]
      BY <2>1
    <2> QED BY <1>3, <1>5, <2>2 DEF Folds
  <1> QED BY <1>4, <1>5

\* Every log has a fold.
LEMMA FoldExists ==
    ASSUME NEW log, NEW N \in Nat
    PROVE  \E f : DOMAIN f = 0..N /\ f = [n \in 0..N |-> f[n]]
                    /\ \A n \in 0..N : Folds(f, log, n)
  <1> DEFINE Folded(f, k) == DOMAIN f = 0..k /\ f = [n \in 0..k |-> f[n]]
                                /\ \A n \in 0..k : Folds(f, log, n)
             without == {k \in Nat : ~ \E f : Folded(f, k)}
  <1>1. SUFFICES ASSUME without # {} PROVE FALSE
    OBVIOUS
  <1>2. PICK k \in without : \A n \in without : k <= n
    <2>1. without \in SUBSET Nat
      OBVIOUS
    <2> HIDE DEF without
    <2> QED BY <1>1, <2>1, LeastNatural
  <1>3. CASE k = 0
    <2> DEFINE f == [n \in 0..0 |-> Empty]
    <2>1. Folded(f, 0)
      BY DEF Folds
    <2> QED BY <1>2, <1>3, <2>1
  <1>4. CASE k # 0
    <2>1. k - 1 \in Nat /\ k - 1 \notin without
      BY <1>2, <1>4
    <2>2. PICK g : Folded(g, k - 1)
      BY <2>1
    <2> DEFINE f == [n \in 0..k |-> IF n = k THEN Follow(g[k - 1], log[k]) ELSE g[n]]
    <2>3. ASSUME NEW n \in 0..k PROVE Folds(f, log, n)
      <3>1. CASE n = k
        BY <1>4, <2>1, <3>1 DEF Folds
      <3>2. CASE n # k
        <4>1. n \in 0..(k - 1) /\ (n # 0 => n - 1 \in 0..(k - 1))
          BY <3>2
        <4>2. f[n] = g[n] /\ (n # 0 => f[n - 1] = g[n - 1])
          BY <4>1
        <4>3. Folds(g, log, n)
          BY <2>2, <4>1
        <4> HIDE DEF f
        <4> QED BY <4>2, <4>3 DEF Folds
      <3> QED BY <3>1, <3>2
    <2>4. Folded(f, k)
      BY <2>3
    <2> QED BY <1>2, <2>4
  <1> QED BY <1>3, <1>4

\* The alias map of a log is the last value of such a fold.
LEMMA AliasesAreFolded ==
    ASSUME NEW log \in Seq(MergeRecord)
    PROVE  \E f : /\ AliasesAfter(log) = f[Len(log)]
                  /\ \A n \in 0..Len(log) : Folds(f, log, n)
  <1> DEFINE IsFold(f) == f = [n \in 0..Len(log) |->
                                IF n = 0 THEN Empty ELSE Follow(f[n - 1], log[n])]
             after == CHOOSE f : IsFold(f)
  <1>1. AliasesAfter(log) = after[Len(log)]
    BY DEF AliasesAfter
  <1>2. PICK f : /\ DOMAIN f = 0..Len(log) /\ f = [n \in 0..Len(log) |-> f[n]]
                 /\ \A n \in 0..Len(log) : Folds(f, log, n)
    <2>1. Len(log) \in Nat
      OBVIOUS
    <2> QED BY <2>1, FoldExists
  <1>3. IsFold(f)
    BY <1>2 DEF Folds
  <1>4. IsFold(after)
    BY <1>3
  <1>5. \A n \in 0..Len(log) : Folds(after, log, n)
    <2> HIDE DEF after
    <2> QED BY <1>4 DEF Folds
  <1> QED BY <1>1, <1>5

\* One more record is one more step of the fold.
LEMMA AliasesStep ==
    ASSUME NEW log \in Seq(MergeRecord), NEW m \in MergeRecord
    PROVE  AliasesAfter(Append(log, m)) = Follow(AliasesAfter(log), m)
  <1> DEFINE longer == Append(log, m)
             N == Len(log)
  <1>1. /\ longer \in Seq(MergeRecord) /\ Len(longer) = N + 1 /\ N \in Nat
        /\ longer[N + 1] = m /\ \A n \in 1..N : longer[n] = log[n]
    OBVIOUS
  <1>2. PICK f : /\ AliasesAfter(log) = f[N] /\ \A n \in 0..N : Folds(f, log, n)
    BY AliasesAreFolded
  <1>3. PICK g : /\ AliasesAfter(longer) = g[Len(longer)]
                 /\ \A n \in 0..Len(longer) : Folds(g, longer, n)
    BY <1>1, AliasesAreFolded
  <1> HIDE DEF longer, N
  <1>4. \A n \in 0..N : Folds(g, log, n)
    <2> SUFFICES ASSUME NEW n \in 0..N PROVE Folds(g, log, n)
      OBVIOUS
    <2>1. Folds(g, longer, n)
      BY <1>1, <1>3
    <2> QED BY <1>1, <2>1 DEF Folds
  <1>5. f[N] = g[N]
    BY <1>1, <1>2, <1>4, FoldsAgree
  <1>6. g[N + 1] = Follow(g[N], m)
    <2>1. Folds(g, longer, N + 1)
      BY <1>1, <1>3
    <2>2. (N + 1) - 1 = N /\ N + 1 # 0
      BY <1>1
    <2> QED BY <1>1, <2>1, <2>2 DEF Folds
  <1> QED BY <1>1, <1>2, <1>3, <1>5, <1>6 DEF longer

\* No merge, no alias.
LEMMA AliasesBegin == AliasesAfter(<<>>) = Empty
  <1>1. <<>> \in Seq(MergeRecord) /\ Len(<<>>) = 0
    OBVIOUS
  <1>2. PICK f : /\ AliasesAfter(<<>>) = f[Len(<<>>)]
                 /\ \A n \in 0..Len(<<>>) : Folds(f, <<>>, n)
    BY <1>1, AliasesAreFolded
  <1>3. 0 \in 0..Len(<<>>)
    BY <1>1
  <1>4. AliasesAfter(<<>>) = f[0] /\ Folds(f, <<>>, 0)
    BY <1>1, <1>2, <1>3
  <1> QED BY <1>4 DEF Folds

\* A merge moves the alias of every name whose events it moves.
LEMMA MergeKeepsAliases ==
    ASSUME RegistryInv, IdentityInv, AliasesOK, NEW from \in Ids, NEW to \in Ids,
           MergeDeviceIdentity(from, to)
    PROVE  AliasesOK'
  <1> DEFINE plan == DeviceMergePlan(from, to)
  <1>1. /\ plan \in MergeRecord /\ plan.from = from /\ plan.to = to
    BY PlanIsRecord DEF DeviceMergePlan
  <1>2. merges' = Append(merges, plan) /\ merges \in Seq(MergeRecord)
    BY DEF MergeDeviceIdentity, IdentityInv
  <1> HIDE DEF plan
  <1>3. Aliases' = Follow(Aliases, plan)
    BY <1>1, <1>2, AliasesStep DEF Aliases
  <1>4. /\ DOMAIN Aliases' = DOMAIN Aliases \cup {from} /\ Aliases'[from] = to
        /\ \A d \in DOMAIN Aliases : d # from =>
                Aliases'[d] = IF Aliases[d] = from THEN to ELSE Aliases[d]
    <2> HIDE DEF Aliases
    <2> QED BY <1>1, <1>3 DEF Follow, Upsert
  <1>5. /\ DOMAIN events' = DOMAIN events /\ DOMAIN events \subseteq Events
        /\ \A e \in DOMAIN events :
            events'[e].device = IF events[e].device = from THEN to ELSE events[e].device
        /\ gone' = [gone EXCEPT ![from] = EventsOf(from)]
    BY DEF MergeDeviceIdentity, EventsOf, IdentityInv, EventsOK
  <1>6. gone' \in [Ids -> SUBSET Events]
    BY <1>5 DEF AliasesOK, EventsOf
  <1>7. ASSUME NEW d \in Ids, NEW e \in gone'[d]
        PROVE  e \in DOMAIN events' /\ d \in DOMAIN Aliases' /\ events'[e].device = Aliases'[d]
    <2>1. CASE d = from
      <3>1. e \in DOMAIN events /\ events[e].device = from
        BY <1>5, <1>7, <2>1 DEF AliasesOK, EventsOf
      <3> QED BY <1>4, <1>5, <2>1, <3>1
    <2>2. CASE d # from
      <3>1. e \in gone[d]
        BY <1>5, <1>7, <2>2 DEF AliasesOK
      <3>2. e \in DOMAIN events /\ d \in DOMAIN Aliases /\ events[e].device = Aliases[d]
        BY <3>1 DEF AliasesOK
      <3> QED BY <1>4, <1>5, <2>2, <3>2
    <2> QED BY <2>1, <2>2
  <1> QED BY <1>6, <1>7 DEF AliasesOK

\* An event that arrives is new, or a claimed one, which no merge accounts for
\* any more.
LEMMA ArriveKeepsAliases ==
    ASSUME AliasesOK, Arrive
    PROVE  AliasesOK'
  <1>1. PICK e \in Events, d \in world.ids, origin \in {"self", "observed"} :
            FileEvent(e, d, origin)
    BY DEF Arrive
  <1> DEFINE claims == e \in DOMAIN events /\ events[e].origin = "observed" /\ origin = "self"
  <1>2. /\ e \notin DOMAIN events \/ claims
        /\ events' = Upsert(events, e, [device |-> d, origin |-> origin])
        /\ gone' = [n \in Ids |-> IF claims THEN gone[n] \ {e} ELSE gone[n]]
        /\ merges' = merges
    BY <1>1 DEF FileEvent
  <1>3. \A n \in Ids : gone'[n] \subseteq gone[n] /\ e \notin gone'[n]
    BY <1>2 DEF AliasesOK
  <1>4. \A f \in DOMAIN events : f # e => f \in DOMAIN events' /\ events'[f] = events[f]
    BY <1>2 DEF Upsert
  <1>5. Aliases' = Aliases
    BY <1>2 DEF Aliases
  <1>6. gone' \in [Ids -> SUBSET Events]
    BY <1>2, <1>3 DEF AliasesOK
  <1> QED BY <1>3, <1>4, <1>5, <1>6 DEF AliasesOK

\* Nothing else changes events, log or history.
LEMMA QuietAliases ==
    ASSUME AliasesOK, UNCHANGED <<events, merges, gone>>
    PROVE  AliasesOK'
  BY DEF AliasesOK, Aliases

-----------------------------------------------------------------------------
(* The panel.                                                              *)

\* Of finitely many readings of a device one outranks all.
LEMMA PanelHasReading ==
    ASSUME NEW S, S \subseteq Reading, IsFiniteSet(S), S # {}
    PROVE  \E m \in S : \A r \in S : Outranks(m, r)
  <1> DEFINE leq == {pair \in S \X S : Outranks(pair[2], pair[1])}
  <1>1. \A x, y \in S : <<x, y>> \in leq <=> Outranks(y, x)
    OBVIOUS
  <1>2. \A x \in S : x.at \in Int /\ x.reset \div 60 \in Int
    BY DEF Reading
  <1>3. \A x, y \in S : Outranks(y, x) \/ Outranks(x, y)
    BY <1>2 DEF Outranks
  <1>4. \A x, y, z \in S : Outranks(y, x) /\ Outranks(z, y) => Outranks(z, x)
    BY <1>2 DEF Outranks
  <1> HIDE DEF leq
  <1>5. PICK m \in S : \A x \in S : <<x, m>> \in leq
    <2>1. \A x, y \in S : <<x, y>> \in leq \/ <<y, x>> \in leq
      BY <1>1, <1>3
    <2>2. \A x, y, z \in S : <<x, y>> \in leq /\ <<y, z>> \in leq => <<x, z>> \in leq
      BY <1>1, <1>4
    <2> QED BY <2>1, <2>2, FiniteMaximum
  <1> QED BY <1>1, <1>5

\* As long as a device keeps its readings, the panel shows one that outranks
\* each of them.
LEMMA PanelAdvances ==
    ASSUME QuotasOK', NEW d, QuotasOf(d) \subseteq quotas', NEW q \in LatestQuotas(d),
           clock' = clock
    PROVE  \E r \in LatestQuotas(d)' :
              \/ r.reset \div 60 > q.reset \div 60
              \/ r.reset \div 60 = q.reset \div 60 /\ r.at >= q.at
  <1> DEFINE S == {r \in quotas' : r.device = d /\ Within(r, PanelWindow)}
  <1>1. q \in S
    BY DEF LatestQuotas, QuotasOf
  <1>2. S \subseteq Reading /\ IsFiniteSet(S)
    BY FS_Subset DEF QuotasOK
  <1>3. PICK m \in S : \A r \in S : Outranks(m, r)
    <2> HIDE DEF S
    <2> QED BY <1>1, <1>2, PanelHasReading
  <1>4. m \in LatestQuotas(d)'
    BY <1>3 DEF LatestQuotas, QuotasOf, Outranks, Within
  <1> QED BY <1>1, <1>3, <1>4 DEF Outranks

-----------------------------------------------------------------------------
(* The calibration.                                                        *)

\* Whether a reading is accounted for depends on what it says only.
Accounted(q) ==
    Look(q) \notin missed /\ q.percent >= MinPeak =>
        Learnt(q) \/ Observed(q) \/ backfill.due \/ Outstanding(q)

\* Readings with the same look are accounted for alike.
LEMMA SameLook ==
    ASSUME NEW q, NEW r, Look(q) = Look(r), Accounted(q)
    PROVE  Accounted(r)
  <1>1. q.reset = r.reset /\ q.percent = r.percent
    BY DEF Look
  <1> QED BY <1>1 DEF Accounted, Learnt, Observed, Outstanding

\* A merge asks for nothing new.
LEMMA MergeKeepsCapacity ==
    ASSUME CapacityOK, NoneForgotten, UNCHANGED capacityVars,
           \A r \in quotas' : \E q \in quotas : Look(q) = Look(r)
    PROVE  CapacityOK' /\ NoneForgotten'
  <1>1. UNCHANGED <<spent, capacity, observers, backfill, missed>>
    BY DEF capacityVars
  <1>2. CapacityOK'
    BY <1>1 DEF CapacityOK
  <1>3. ASSUME NEW r \in quotas' PROVE Accounted(r)'
    <2>1. PICK q \in quotas : Look(q) = Look(r)
      BY <1>3
    <2>2. Accounted(r)
      BY <2>1, SameLook DEF NoneForgotten, Accounted
    <2> QED BY <1>1, <2>2 DEF Accounted, Learnt, Observed, Outstanding, Look
  <1> QED BY <1>2, <1>3 DEF NoneForgotten, Accounted

\* A reading is observed from the moment it is stored.
LEMMA InsertKeepsCapacity ==
    ASSUME CapacityOK, NoneForgotten, clock \in Nat, NEW q \in Reading, InsertQuotas(q)
    PROVE  CapacityOK' /\ NoneForgotten'
  <1> DEFINE o == [row |-> q, now |-> clock, pc |-> "read", tokens |-> 0]
  <1>1. /\ quotas' = quotas \cup {q} /\ observers' = observers \cup {o}
        /\ UNCHANGED <<spent, capacity, backfill, missed>>
    BY DEF InsertQuotas
  <1>2. o \in Observer /\ o.row = q
    BY DEF Observer
  <1> HIDE DEF o
  <1>3. CapacityOK'
    BY <1>1, <1>2 DEF CapacityOK
  <1>4. Observed(q)'
    BY <1>1, <1>2 DEF Observed
  <1>5. ASSUME NEW r \in quotas PROVE Accounted(r)'
    <2>1. Accounted(r)
      BY <1>5 DEF NoneForgotten, Accounted
    <2> QED BY <1>1, <2>1 DEF Accounted, Learnt, Observed, Outstanding
  <1> QED BY <1>1, <1>3, <1>4, <1>5 DEF NoneForgotten, Accounted

\* The tokens of a window are a number.
LEMMA TokensAreNat ==
    ASSUME CapacityOK, NEW reset, NEW upto
    PROVE  SubscriptionTokens(reset, upto) \in Nat
  <1>1. {e \in spent : e.reset = reset /\ e.ts <= upto} \in SUBSET spent
    OBVIOUS
  <1> QED BY <1>1, FS_Subset, FS_CardinalityType DEF CapacityOK, SubscriptionTokens

\* An observation is learnt from, and takes no peak back.
LEMMA ObserveLearns ==
    ASSUME CapacityOK, NEW row \in Reading, NEW tokens \in Nat, ObserveCapacity(row, tokens)
    PROVE  /\ Learnt(row)'
           /\ \A q \in Reading : Learnt(q) => Learnt(q)'
           /\ \A reset \in DOMAIN capacity' : capacity'[reset] \in [peak : Nat, tokens : Nat]
  <1> DEFINE new == [peak |-> row.percent, tokens |-> tokens]
  <1>1. row.percent \in Nat /\ new \in [peak : Nat, tokens : Nat] /\ new.peak = row.percent
    BY DEF Reading
  <1>2. \A reset \in DOMAIN capacity :
            capacity[reset] \in [peak : Nat, tokens : Nat] /\ capacity[reset].peak \in Nat
    BY DEF CapacityOK
  <1>3. CASE RaisesPeak(row.reset, row.percent)
    <2>1. /\ DOMAIN capacity' = DOMAIN capacity \cup {row.reset}
          /\ capacity'[row.reset] = new
          /\ \A reset \in DOMAIN capacity : reset # row.reset => capacity'[reset] = capacity[reset]
      BY <1>3 DEF ObserveCapacity, Upsert
    <2> HIDE DEF new
    <2>2. Learnt(row)'
      BY <1>1, <2>1 DEF Learnt
    <2>3. ASSUME NEW q \in Reading, Learnt(q) PROVE Learnt(q)'
      <3>1. q.percent \in Nat
        BY DEF Reading
      <3> QED BY <1>1, <1>2, <1>3, <2>1, <2>3, <3>1 DEF Learnt, RaisesPeak
    <2> QED BY <1>1, <1>2, <2>1, <2>2, <2>3
  <1>4. CASE ~RaisesPeak(row.reset, row.percent)
    BY <1>1, <1>2, <1>4 DEF ObserveCapacity, RaisesPeak, Learnt
  <1> QED BY <1>3, <1>4

\* The reads of an observer: it goes on, is not needed, or met an empty window.
LEMMA ReadPeakKeepsCapacity ==
    ASSUME CapacityOK, NoneForgotten, quotas \subseteq Reading, NEW o \in observers,
           ReadPeak(o), UNCHANGED quotas
    PROVE  CapacityOK' /\ NoneForgotten'
  <1> DEFINE tokens == SubscriptionTokens(o.row.reset, o.now)
             next == [o EXCEPT !.pc = "write", !.tokens = tokens]
  <1>1. o \in Observer /\ o.row \in Reading
    BY DEF CapacityOK, Observer
  <1>2. tokens \in Nat
    BY TokensAreNat
  <1>3. next \in Observer /\ next.row = o.row
    <2> HIDE DEF tokens
    <2> QED BY <1>1, <1>2 DEF Observer
  <1>4. /\ observers' = IF RaisesPeak(o.row.reset, o.row.percent) /\ tokens > 0
                        THEN (observers \ {o}) \cup {next} ELSE observers \ {o}
        /\ missed' = IF RaisesPeak(o.row.reset, o.row.percent) /\ tokens = 0
                     THEN missed \cup {Look(o.row)} ELSE missed
        /\ UNCHANGED <<spent, capacity, backfill>>
    BY DEF ReadPeak
  <1> HIDE DEF next, tokens
  <1>5. CapacityOK'
    BY <1>3, <1>4 DEF CapacityOK
  <1>6. ASSUME NEW q \in quotas PROVE Accounted(q)'
    <2>1. Accounted(q) /\ q \in Reading
      BY <1>6 DEF NoneForgotten, Accounted
    <2>2. CASE Look(o.row) # Look(q)
      <3>1. Observed(q) => Observed(q)'
        BY <1>4, <2>2 DEF Observed
      <3> QED BY <1>4, <2>1, <3>1 DEF Accounted, Learnt, Outstanding
    <2>3. CASE Look(o.row) = Look(q)
      <3>1. o.row.reset = q.reset /\ o.row.percent = q.percent
        BY <2>3 DEF Look
      <3>2. CASE tokens = 0 /\ RaisesPeak(o.row.reset, o.row.percent)
        BY <1>4, <2>3, <3>2 DEF Accounted
      <3>3. CASE tokens > 0 /\ RaisesPeak(o.row.reset, o.row.percent)
        <4>1. Observed(q)'
          BY <1>3, <1>4, <2>3, <3>3 DEF Observed
        <4> QED BY <4>1 DEF Accounted
      <3>4. CASE ~RaisesPeak(o.row.reset, o.row.percent)
        <4>1. q.percent \in Nat /\ (q.reset \in DOMAIN capacity => capacity[q.reset].peak \in Nat)
          BY <2>1 DEF Reading, CapacityOK
        <4>2. Learnt(q)'
          BY <1>4, <3>1, <3>4, <4>1 DEF RaisesPeak, Learnt
        <4> QED BY <4>2 DEF Accounted
      <3> QED BY <1>2, <3>2, <3>3, <3>4
    <2> QED BY <2>2, <2>3
  <1> QED BY <1>5, <1>6 DEF NoneForgotten, Accounted

\* Its write.
LEMMA WritePeakKeepsCapacity ==
    ASSUME CapacityOK, NoneForgotten, quotas \subseteq Reading, NEW o \in observers,
           WritePeak(o), UNCHANGED quotas
    PROVE  CapacityOK' /\ NoneForgotten'
  <1>1. o \in Observer /\ o.row \in Reading /\ o.tokens \in Nat
    BY DEF CapacityOK, Observer
  <1>2. /\ ObserveCapacity(o.row, o.tokens) /\ observers' = observers \ {o}
        /\ UNCHANGED <<spent, backfill, missed>>
    BY DEF WritePeak
  <1>3. /\ Learnt(o.row)'
        /\ \A q \in Reading : Learnt(q) => Learnt(q)'
        /\ \A reset \in DOMAIN capacity' : capacity'[reset] \in [peak : Nat, tokens : Nat]
    BY <1>1, <1>2, ObserveLearns
  <1>4. CapacityOK'
    BY <1>2, <1>3 DEF CapacityOK
  <1>5. ASSUME NEW q \in quotas PROVE Accounted(q)'
    <2>1. Accounted(q) /\ q \in Reading
      BY <1>5 DEF NoneForgotten, Accounted
    <2>2. CASE Look(o.row) # Look(q)
      <3>1. Observed(q) => Observed(q)'
        BY <1>2, <2>2 DEF Observed
      <3> QED BY <1>2, <1>3, <2>1, <3>1 DEF Accounted, Outstanding
    <2>3. CASE Look(o.row) = Look(q)
      <3>1. o.row.reset = q.reset /\ o.row.percent = q.percent
        BY <2>3 DEF Look
      <3>2. Learnt(q)'
        BY <1>3, <3>1 DEF Learnt
      <3> QED BY <3>2 DEF Accounted
    <2> QED BY <2>2, <2>3
  <1> QED BY <1>4, <1>5 DEF NoneForgotten, Accounted

\* An observation that errs is given up, its look with it.
LEMMA DropKeepsCapacity ==
    ASSUME CapacityOK, NoneForgotten, NEW o \in observers,
           DropObservation(o), UNCHANGED quotas
    PROVE  CapacityOK' /\ NoneForgotten'
  <1>1. /\ observers' = observers \ {o} /\ missed' = missed \cup {Look(o.row)}
        /\ UNCHANGED <<spent, capacity, backfill>>
    BY DEF DropObservation
  <1>2. CapacityOK'
    BY <1>1 DEF CapacityOK
  <1>3. ASSUME NEW q \in quotas PROVE Accounted(q)'
    <2>1. Accounted(q)
      BY <1>3 DEF NoneForgotten, Accounted
    <2>2. CASE Look(o.row) = Look(q)
      BY <1>1, <2>2 DEF Accounted
    <2>3. CASE Look(o.row) # Look(q)
      <3>1. Observed(q) => Observed(q)'
        BY <1>1, <2>3 DEF Observed
      <3> QED BY <1>1, <2>1, <3>1 DEF Accounted, Learnt, Outstanding
    <2> QED BY <2>2, <2>3
  <1> QED BY <1>2, <1>3 DEF NoneForgotten, Accounted

\* An event is added to finitely many.
LEMMA SpendKeepsCapacity ==
    ASSUME CapacityOK, NoneForgotten, NEW reset, NEW ts, Spend(reset, ts), UNCHANGED quotas
    PROVE  CapacityOK' /\ NoneForgotten'
  <1>1. /\ spent' = spent \cup {[reset |-> reset, ts |-> ts]}
        /\ UNCHANGED <<capacity, observers, backfill, missed>>
    BY DEF Spend
  <1>2. CapacityOK'
    BY <1>1, FS_AddElement DEF CapacityOK
  <1>3. NoneForgotten'
    BY <1>1 DEF NoneForgotten, Learnt, Observed, Outstanding
  <1> QED BY <1>2, <1>3

\* Every window with a reading worth learning from, and within the query's reach,
\* has a peak.
LEMMA PeakOfWindow ==
    ASSUME QuotasOK, NEW q \in quotas, q.percent >= MinPeak, Within(q, BackfillWindow)
    PROVE  \E p \in Peaks : p.reset = q.reset
  <1> DEFINE S == {r \in quotas : /\ r.percent >= MinPeak /\ Within(r, BackfillWindow)
                                 /\ r.reset = q.reset}
             before(x, y) == x.percent > y.percent \/ (x.percent = y.percent /\ x.at <= y.at)
             leq == {pair \in S \X S : before(pair[2], pair[1])}
  <1>1. S \subseteq Reading /\ IsFiniteSet(S) /\ q \in S
    BY FS_Subset DEF QuotasOK
  <1>2. \A x, y \in S : <<x, y>> \in leq <=> before(y, x)
    OBVIOUS
  <1>3. \A x \in S : x.at \in Int /\ x.percent \in Int
    BY <1>1 DEF Reading
  <1>4. \A x, y \in S : before(y, x) \/ before(x, y)
    BY <1>3
  <1>5. \A x, y, z \in S : before(y, x) /\ before(z, y) => before(z, x)
    BY <1>3
  <1>6. PICK p \in S : \A x \in S : before(p, x)
    <2>1. \A x, y \in S : <<x, y>> \in leq \/ <<y, x>> \in leq
      BY <1>2, <1>4
    <2>2. \A x, y, z \in S : <<x, y>> \in leq /\ <<y, z>> \in leq => <<x, z>> \in leq
      BY <1>2, <1>5
    <2> HIDE DEF leq, S, before
    <2>3. \E m \in S : \A x \in S : <<x, m>> \in leq
      BY <1>1, <2>1, <2>2, FiniteMaximum
    <2> QED BY <1>2, <2>3
  <1>7. p \in Peaks
    BY <1>6 DEF Peaks
  <1> QED BY <1>6, <1>7

\* The backfill begins with a peak for every such window, and gives up the older
\* readings that nobody observes.
LEMMA BeginKeepsCapacity ==
    ASSUME CapacityOK, QuotasOK, NoneForgotten, BeginBackfill, UNCHANGED <<quotas, clock>>
    PROVE  CapacityOK' /\ NoneForgotten'
  <1>1. PICK todo \in SUBSET Peaks :
            /\ \A p \in Peaks : \E q \in todo : q.reset = p.reset
            /\ backfill' = [due |-> FALSE, todo |-> todo]
    BY DEF BeginBackfill
  <1>2. /\ UNCHANGED <<spent, capacity, observers>>
        /\ Unobserved({q \in quotas : ~Within(q, BackfillWindow)}) \subseteq missed'
    BY DEF BeginBackfill
  <1>3. todo \subseteq quotas /\ quotas \subseteq Reading
    BY <1>1 DEF Peaks, QuotasOK
  <1>4. CapacityOK'
    BY <1>1, <1>2, <1>3 DEF CapacityOK
  <1>5. ASSUME NEW q \in quotas, q.percent >= MinPeak, Within(q, BackfillWindow)
        PROVE  Outstanding(q)'
    <2>1. PICK p \in todo : p.reset = q.reset
      BY <1>1, <1>5, PeakOfWindow
    <2>2. p \in Peaks /\ p.percent \in Nat /\ q.percent \in Nat
      BY <1>1, <1>3, <1>5, <2>1 DEF Reading
    <2>3. p.percent >= q.percent
      BY <1>5, <2>1, <2>2 DEF Peaks
    <2> QED BY <1>1, <2>1, <2>3 DEF Outstanding
  <1>6. ASSUME NEW q \in quotas, ~Within(q, BackfillWindow)
        PROVE  Observed(q)' \/ Look(q) \in missed'
    BY <1>2, <1>6 DEF Unobserved, Observed
  <1>7. ASSUME NEW q \in quotas PROVE Accounted(q)'
    BY <1>5, <1>6, <1>7 DEF Accounted
  <1> QED BY <1>4, <1>7 DEF NoneForgotten, Accounted

\* A backfill that errs gives up every reading it still had to answer for.
LEMMA ErrorKeepsCapacity ==
    ASSUME CapacityOK, NoneForgotten, BackfillErrs, UNCHANGED quotas
    PROVE  CapacityOK' /\ NoneForgotten'
  <1> DEFINE left == IF backfill.due THEN quotas
                     ELSE UNION {Behind(p) : p \in backfill.todo}
  <1>1. /\ backfill' = [due |-> FALSE, todo |-> {}]
        /\ missed' = missed \cup Unobserved(left)
        /\ UNCHANGED <<spent, capacity, observers>>
    BY DEF BackfillErrs
  <1>2. CapacityOK'
    BY <1>1 DEF CapacityOK
  <1>3. ASSUME NEW q \in quotas PROVE Accounted(q)'
    <2>1. Accounted(q)
      BY <1>3 DEF NoneForgotten, Accounted
    <2>2. ASSUME backfill.due \/ Outstanding(q) PROVE q \in left
      BY <1>3, <2>2 DEF Outstanding, Behind
    <2>3. q \in left => Observed(q) \/ Look(q) \in missed'
      BY <1>1 DEF Unobserved, Observed
    <2> HIDE DEF left
    <2> QED BY <1>1, <2>1, <2>2, <2>3 DEF Accounted, Learnt, Observed
  <1> QED BY <1>2, <1>3 DEF NoneForgotten, Accounted

\* One turn of the backfill's loop learns from its peak, or finds the window
\* of the readings that waited for it empty.
LEMMA BackfillKeepsCapacity ==
    ASSUME CapacityOK, NoneForgotten, quotas \subseteq Reading, NEW p \in backfill.todo,
           BackfillCapacity(p), UNCHANGED quotas
    PROVE  CapacityOK' /\ NoneForgotten'
  <1> DEFINE tokens == SubscriptionTokens(p.reset, p.at)
  <1>1. p \in Reading /\ tokens \in Nat
    BY TokensAreNat DEF CapacityOK
  <1>2. /\ backfill' = [backfill EXCEPT !.todo = @ \ {p}]
        /\ IF tokens = 0
           THEN missed' = missed \cup Unobserved(Behind(p)) /\ UNCHANGED capacity
           ELSE ObserveCapacity(p, tokens) /\ UNCHANGED missed
        /\ UNCHANGED <<spent, observers>>
    BY DEF BackfillCapacity
  <1> HIDE DEF tokens
  <1>3. /\ backfill' \in [due : BOOLEAN, todo : SUBSET Reading]
        /\ backfill'.todo = backfill.todo \ {p} /\ backfill'.due = backfill.due
    BY <1>2 DEF CapacityOK
  <1>4. CASE tokens = 0
    <2>1. CapacityOK'
      BY <1>2, <1>3, <1>4 DEF CapacityOK
    <2>2. ASSUME NEW q \in quotas PROVE Accounted(q)'
      <3>1. Accounted(q)
        BY <2>2 DEF NoneForgotten, Accounted
      <3>2. CASE q \in Behind(p)
        <4>1. Observed(q) \/ Look(q) \in missed'
          BY <1>2, <1>4, <3>2 DEF Unobserved, Observed
        <4> QED BY <1>2, <4>1 DEF Accounted, Observed
      <3>3. CASE q \notin Behind(p)
        <4>1. Outstanding(q) => Outstanding(q)'
          BY <1>3, <2>2, <3>3 DEF Outstanding, Behind
        <4> QED BY <1>2, <1>3, <1>4, <3>1, <4>1 DEF Accounted, Learnt, Observed
      <3> QED BY <3>2, <3>3
    <2> QED BY <2>1, <2>2 DEF NoneForgotten, Accounted
  <1>5. CASE tokens # 0
    <2>1. /\ Learnt(p)'
          /\ \A q \in Reading : Learnt(q) => Learnt(q)'
          /\ \A reset \in DOMAIN capacity' : capacity'[reset] \in [peak : Nat, tokens : Nat]
      BY <1>1, <1>2, <1>5, ObserveLearns
    <2>2. CapacityOK'
      BY <1>2, <1>3, <2>1 DEF CapacityOK
    <2>3. ASSUME NEW q \in quotas PROVE Accounted(q)'
      <3>1. Accounted(q) /\ q \in Reading
        BY <2>3 DEF NoneForgotten, Accounted
      <3>2. ASSUME Outstanding(q) PROVE Learnt(q)' \/ Outstanding(q)'
        <4>1. PICK t \in backfill.todo : t.reset = q.reset /\ t.percent >= q.percent
          BY <3>2 DEF Outstanding
        <4>2. CASE t = p
          <5>1. p.percent \in Nat /\ q.percent \in Nat
                    /\ (p.reset \in DOMAIN capacity' => capacity'[p.reset].peak \in Nat)
            BY <1>1, <2>1, <3>1 DEF Reading
          <5> QED BY <2>1, <4>1, <4>2, <5>1 DEF Learnt
        <4>3. CASE t # p
          BY <1>3, <4>1, <4>3 DEF Outstanding
        <4> QED BY <4>2, <4>3
      <3> QED BY <1>2, <1>3, <1>5, <2>1, <3>1, <3>2 DEF Accounted, Observed
    <2> QED BY <2>2, <2>3 DEF NoneForgotten, Accounted
  <1> QED BY <1>4, <1>5

\* The calibration as a whole.
LEMMA CalibrateKeepsCapacity ==
    ASSUME CapacityOK, NoneForgotten, QuotasOK, Calibrate
    PROVE  CapacityOK' /\ NoneForgotten'
  <1>1. UNCHANGED <<quotas, clock>> /\ quotas \subseteq Reading
    BY DEF Calibrate, identityVars, QuotasOK
  <1>2. CASE \E reset \in {look.reset : look \in world.looks}, ts \in 1..MaxTime :
                Spend(reset, ts)
    BY <1>1, <1>2, SpendKeepsCapacity
  <1>3. CASE \E o \in observers : ReadPeak(o) \/ WritePeak(o) \/ DropObservation(o)
    BY <1>1, <1>3, ReadPeakKeepsCapacity, WritePeakKeepsCapacity, DropKeepsCapacity
  <1>4. CASE BeginBackfill
    BY <1>1, <1>4, BeginKeepsCapacity
  <1>5. CASE \E p \in backfill.todo : BackfillCapacity(p)
    BY <1>1, <1>5, BackfillKeepsCapacity
  <1>6. CASE BackfillErrs
    BY <1>1, <1>6, ErrorKeepsCapacity
  <1> QED BY <1>2, <1>3, <1>4, <1>5, <1>6 DEF Calibrate

-----------------------------------------------------------------------------
(* The hub as a whole.                                                     *)

\* What the panel shows for each device, and never takes back.
PanelKept ==
    \A d \in Ids :
        \/ \A q \in LatestQuotas(d) : \E r \in LatestQuotas(d)' :
            \/ r.reset \div 60 > q.reset \div 60
            \/ r.reset \div 60 = q.reset \div 60 /\ r.at >= q.at
        \/ merges' # merges /\ merges'[Len(merges')].from = d

\* What every step does, beside keeping the invariant.
StepKeeps ==
    /\ CredentialsKept
    /\ merges' # merges => MergeAccounted
    /\ quotas' # quotas => PanelKept

\* The tables are empty, but for the devices registered before.
LEMMA InitKeepsDevices ==
    ASSUME Init
    PROVE  DevicesInv
  <1>1. /\ world \in Worlds
        /\ devices = [d \in world.registered |-> Fresh(TokenOf[d], CHOOSE n \in Names : TRUE)]
        /\ DOMAIN bindings = {} /\ sessions = {} /\ DOMAIN reports = {}
        /\ clock = 1 /\ request = [c \in Conns |-> Idle]
        /\ DOMAIN events = {} /\ quotas = {} /\ merges = <<>>
        /\ spent = {} /\ DOMAIN capacity = {} /\ observers = {}
        /\ backfill = [due |-> TRUE, todo |-> {}]
        /\ gone = [d \in Ids |-> {}]
    BY DEF Init, Empty
  <1>2. DevicesOK
    <2>1. (CHOOSE n \in Names : TRUE) \in Names
      BY HubDevicesConstants
    <2>2. /\ world.registered \subseteq Ids
          /\ \A d \in world.registered : TokenOf[d] \in Tokens
      BY <1>1, HubDevicesConstants
    <2>3. \A d \in world.registered : Fresh(TokenOf[d], CHOOSE n \in Names : TRUE) \in DeviceRow
      BY <2>1, <2>2 DEF Fresh, DeviceRow
    <2> QED BY <1>1, <2>2, <2>3 DEF DevicesOK
  <1>3. RequestsOK
    BY <1>1 DEF RequestsOK, Idle
  <1>4. IsFiniteSet({})
    BY FS_EmptySet
  <1>5. RegistryInv
    BY <1>1, <1>2, <1>3, <1>4 DEF RegistryInv, BindingsOK, ReportsOK
  <1>6. merges \in Seq(MergeRecord)
    BY <1>1
  <1>7. IdentityInv
    BY <1>1, <1>4, <1>6 DEF IdentityInv, EventsOK, QuotasOK
  <1>8. CapacityOK /\ NoneForgotten
    BY <1>1, <1>4 DEF CapacityOK, NoneForgotten
  <1>9. AliasesOK
    BY <1>1 DEF AliasesOK
  <1> QED BY <1>5, <1>7, <1>8, <1>9 DEF DevicesInv

\* A step that touches neither names nor readings nor the calibration.
LEMMA QuietIdentities ==
    ASSUME IdentityInv, AliasesOK, CapacityOK, NoneForgotten,
           UNCHANGED <<identityVars, capacityVars>>
    PROVE  /\ IdentityInv' /\ AliasesOK' /\ CapacityOK' /\ NoneForgotten'
           /\ quotas' = quotas /\ merges' = merges
  <1>1. UNCHANGED <<events, quotas, merges, gone, spent, capacity, observers, backfill, missed>>
    BY DEF identityVars, capacityVars
  <1>2. AliasesOK'
    BY <1>1, QuietAliases
  <1> QED BY <1>1, <1>2 DEF IdentityInv, EventsOK, QuotasOK, CapacityOK, NoneForgotten,
                      Learnt, Observed, Outstanding

\* One step per action of the specification.
LEMMA StepKeepsDevices ==
    ASSUME DevicesInv, Next
    PROVE  DevicesInv' /\ StepKeeps
  <1>0. /\ RegistryInv /\ IdentityInv /\ AliasesOK /\ CapacityOK /\ NoneForgotten
        /\ RequestsOK /\ EventsOK /\ QuotasOK /\ merges \in Seq(MergeRecord)
        /\ world \in Worlds /\ clock \in Nat
    BY DEF DevicesInv, RegistryInv, IdentityInv
  <1>1. world.ids \subseteq Ids /\ world.looks \subseteq [reset : Nat, percent : Nat]
    BY <1>0, HubDevicesConstants
  <1>2. ASSUME UNCHANGED <<devices, bindings, sessions, reports, request, clock, world>>
        PROVE  RegistryInv' /\ CredentialsKept
    BY <1>0, <1>2, QuietRegistry, QuietCredentials DEF RequestsOK
  <1>3. CASE RegistryStep
    <2>1. RegistryInv' /\ CredentialsKept
      BY <1>0, <1>3, RegistryStepKeepsRegistry
    <2>2. UNCHANGED <<identityVars, capacityVars>>
      BY <1>3 DEF RegistryStep
    <2> QED BY <1>0, <2>1, <2>2, QuietIdentities DEF DevicesInv, StepKeeps
  <1>4. CASE Arrive
    <2>1. IdentityInv' /\ merges' = merges /\ quotas' = quotas
      BY <1>0, <1>4, ArriveKeepsIdentities
    <2>2. UNCHANGED <<registryVars, clock, capacityVars, world>>
      BY <1>4 DEF Arrive
    <2>3. RegistryInv' /\ CredentialsKept
      BY <1>2, <2>2 DEF registryVars
    <2>4. CapacityOK' /\ NoneForgotten'
      BY <1>0, <2>1, <2>2, MergeKeepsCapacity
    <2>5. AliasesOK'
      BY <1>0, <1>4, ArriveKeepsAliases
    <2> QED BY <2>1, <2>3, <2>4, <2>5 DEF DevicesInv, StepKeeps
  <1>5. CASE Label
    <2>1. UNCHANGED <<events, quotas, merges, gone, registryVars, clock, capacityVars, world>>
      BY <1>5 DEF Label, PutLabels
    <2>2. RegistryInv' /\ CredentialsKept
      BY <1>2, <2>1 DEF registryVars
    <2>3. IdentityInv'
      BY <1>0, <2>1 DEF IdentityInv, EventsOK, QuotasOK
    <2>4. CapacityOK' /\ NoneForgotten'
      BY <1>0, <2>1, MergeKeepsCapacity
    <2> QED BY <1>0, <2>1, <2>2, <2>3, <2>4, QuietAliases DEF DevicesInv, StepKeeps
  <1>6. CASE Merge
    <2>1. PICK from, to \in world.ids : MergeDeviceIdentity(from, to)
      BY <1>6 DEF Merge
    <2>2. from \in Ids /\ to \in Ids /\ UNCHANGED <<capacityVars, world>>
      BY <1>1, <1>6, <2>1 DEF Merge
    <2>3. RegistryInv' /\ CredentialsKept
      BY <1>0, <2>1, <2>2, MergeKeepsRegistry
    <2>4. IdentityInv' /\ MergeAccounted /\ merges'[Len(merges')].from = from /\ from # to
      BY <1>0, <2>1, <2>2, MergeKeepsIdentities
    <2>5. quotas' = Moved(quotas \ Dropped(from, to), from, to)
              /\ merges' = Append(merges, DeviceMergePlan(from, to))
              /\ clock' = clock
      BY <2>1 DEF MergeDeviceIdentity
    <2>6. /\ QuotasOK'
          /\ \A d \in Ids : d # from => QuotasOf(d) \subseteq quotas'
          /\ \A r \in quotas' : \E q \in quotas : Look(q) = Look(r)
      BY <1>0, <2>2, <2>4, <2>5, MergeKeepsQuotas
    <2>7. CapacityOK' /\ NoneForgotten'
      BY <1>0, <2>2, <2>6, MergeKeepsCapacity
    <2>8. merges' # merges
      <3> DEFINE plan == DeviceMergePlan(from, to)
      <3>1. plan \in MergeRecord
        BY <1>0, <2>2, PlanIsRecord
      <3> HIDE DEF plan
      <3>2. Len(merges') = Len(merges) + 1 /\ Len(merges) \in Nat
        BY <1>0, <2>5, <3>1
      <3> QED BY <3>2
    <2>9. PanelKept
      BY <2>4, <2>5, <2>6, <2>8, PanelAdvances DEF PanelKept
    <2>10. AliasesOK'
      BY <1>0, <2>1, <2>2, MergeKeepsAliases
    <2> QED BY <2>3, <2>4, <2>7, <2>9, <2>10 DEF DevicesInv, StepKeeps
  <1>7. CASE Read
    <2>1. PICK q \in Readings : InsertQuotas(q)
      BY <1>7 DEF Read
    <2>2. q \in Reading
      BY <1>1, <2>1, HubDevicesConstants DEF Readings, Reading
    <2>3. /\ UNCHANGED <<registryVars, clock, world, events, merges, gone>>
          /\ NewKey(q) /\ quotas' = quotas \cup {q}
      BY <1>7, <2>1 DEF Read, InsertQuotas
    <2>4. RegistryInv' /\ CredentialsKept
      BY <1>2, <2>3 DEF registryVars
    <2>5. QuotasOK'
      BY <1>0, <2>2, <2>3, InsertKeepsQuotas
    <2>6. IdentityInv'
      BY <1>0, <2>3, <2>5 DEF IdentityInv, EventsOK
    <2>7. CapacityOK' /\ NoneForgotten'
      BY <1>0, <2>1, <2>2, InsertKeepsCapacity
    <2>8. \A d \in Ids : QuotasOf(d) \subseteq quotas'
      BY <2>3 DEF QuotasOf
    <2>9. PanelKept
      BY <2>3, <2>5, <2>8, PanelAdvances DEF PanelKept
    <2> QED BY <1>0, <2>3, <2>4, <2>6, <2>7, <2>9, QuietAliases DEF DevicesInv, StepKeeps
  <1>8. CASE Calibrate
    <2>1. UNCHANGED <<registryVars, clock, identityVars, world>>
      BY <1>8 DEF Calibrate
    <2>2. RegistryInv' /\ CredentialsKept
      BY <1>2, <2>1 DEF registryVars
    <2>3. IdentityInv' /\ AliasesOK' /\ quotas' = quotas /\ merges' = merges
      BY <1>0, <2>1, QuietAliases DEF IdentityInv, EventsOK, QuotasOK, identityVars
    <2>4. CapacityOK' /\ NoneForgotten'
      BY <1>0, <1>8, CalibrateKeepsCapacity
    <2> QED BY <2>2, <2>3, <2>4 DEF DevicesInv, StepKeeps
  <1>9. CASE Crash
    <2>1. /\ UNCHANGED <<devices, bindings, sessions, reports, clock, identityVars, world>>
          /\ request' = [c \in Conns |-> Idle]
          /\ observers' = {} /\ backfill' = [due |-> TRUE, todo |-> {}]
          /\ UNCHANGED <<spent, capacity>>
      BY <1>9 DEF Crash, Restart
    <2>2. RequestsOK'
      BY <2>1 DEF RequestsOK, Idle
    <2>3. RegistryInv' /\ CredentialsKept
      BY <1>0, <2>1, <2>2, QuietRegistry, QuietCredentials
    <2>4. IdentityInv' /\ AliasesOK' /\ quotas' = quotas /\ merges' = merges
      BY <1>0, <2>1, QuietAliases DEF IdentityInv, EventsOK, QuotasOK, identityVars
    <2>5. CapacityOK' /\ NoneForgotten'
      BY <1>0, <2>1 DEF CapacityOK, NoneForgotten
    <2> QED BY <2>3, <2>4, <2>5 DEF DevicesInv, StepKeeps
  <1> QED BY <1>3, <1>4, <1>5, <1>6, <1>7, <1>8, <1>9 DEF Next

\* Nothing happens to a stuttering hub.
LEMMA StutterKeepsDevices ==
    ASSUME DevicesInv, UNCHANGED vars
    PROVE  DevicesInv' /\ StepKeeps
  <1>1. /\ UNCHANGED <<devices, bindings, sessions, reports, request, clock, world>>
        /\ UNCHANGED <<identityVars, capacityVars>>
    BY DEF vars, registryVars
  <1>2. RegistryInv /\ RequestsOK /\ IdentityInv /\ AliasesOK /\ CapacityOK /\ NoneForgotten
    BY DEF DevicesInv, RegistryInv
  <1>3. RegistryInv' /\ CredentialsKept
    BY <1>1, <1>2, QuietRegistry, QuietCredentials DEF RequestsOK
  <1> QED BY <1>1, <1>2, <1>3, QuietIdentities DEF DevicesInv, StepKeeps

-----------------------------------------------------------------------------
(* The results.                                                            *)

\* The invariant holds in every reachable state, and every step keeps its part.
LEMMA DevicesInvariant == Spec => []DevicesInv /\ [][StepKeeps]_vars
  <1>1. Init => DevicesInv
    BY InitKeepsDevices
  <1>2. DevicesInv /\ [Next]_vars => DevicesInv' /\ StepKeeps
    BY StepKeepsDevices, StutterKeepsDevices
  <1> QED BY <1>1, <1>2, PTL DEF Spec

\* Whatever reports, heartbeats, merges and crashes come in whatever order
\* (ApplyProcReport's guard, MergeDeviceIdentity), the live rows of a device
\* are those of its newest report.
THEOREM LiveRowsAreTheNewest == Spec => []LiveRowsMatchReport
  <1>1. DevicesInv => LiveRowsMatchReport
    BY DEF DevicesInv, RegistryInv, ReportsOK, LiveRowsMatchReport, RunningSessions,
           ProcReporters
  <1> QED BY <1>1, DevicesInvariant, PTL

\* Whatever chain or circle of merges the audit log holds, the alias that
\* fleetDevices folds out of it is where a name's events are now.
THEOREM AliasesLeadToTheEvents == Spec => []AliasFollowsHistory
  <1>1. ASSUME DevicesInv PROVE AliasFollowsHistory
    <2>1. \A d \in Ids : \A e \in gone[d] :
              d \in DOMAIN Aliases /\ events[e].device = Aliases[d]
      BY <1>1 DEF DevicesInv, AliasesOK
    <2>2. ASSUME NEW d \in Registered \ FleetDevices, NEW e \in gone[d]
          PROVE  events[e].device \in Registered
      <3>1. d \in Ids /\ Aliases[d] \in Registered
        BY <1>1 DEF DevicesInv, RegistryInv, DevicesOK, FleetDevices, ListDevices, Registered
      <3> QED BY <2>1, <3>1
    <2> QED BY <2>1, <2>2 DEF AliasFollowsHistory
  <1> QED BY <1>1, DevicesInvariant, PTL

\* On a hub whose readings all arrive through InsertQuotas, a stored reading is
\* either learnt from (ObserveCapacityFromQuota, BackfillCapacity) once neither is
\* under way, or one that the code itself gave up, in a step that `missed`
\* records: an error it logs, the age limit of the backfill, a window without
\* tokens.  Races, restarts and merges alone lose none.  Readings of protocol v2
\* batches are not in Spec: in SpecV2 the same property fails.
THEOREM CalibrationForgetsNothing == Spec => []CapacityFollowsReadings
  <1>1. DevicesInv => CapacityFollowsReadings
    BY DEF DevicesInv, NoneForgotten, CapacityFollowsReadings, Learnt, Observed, Outstanding
  <1> QED BY <1>1, DevicesInvariant, PTL

\* Enrolment keeps a machine on its device, no two machines share one, and a
\* credential changes only where EnrollMachineDevice may take a device over.
THEOREM CredentialsStay == Spec => CredentialsFollowBinding
  <1>1. StepKeeps => CredentialsKept
    BY DEF StepKeeps
  <1>2. UNCHANGED vars => UNCHANGED <<devices, bindings>>
    BY DEF vars, registryVars
  <1> QED BY <1>1, <1>2, DevicesInvariant, PTL DEF CredentialsFollowBinding, CredentialsKept

\* A merge moves the source's rows, keeps the target's, and the audit record
\* counts what it dropped (MergeDeviceIdentity, planDeviceMerge).
THEOREM MergesAreAccounted == Spec => MergeLosesNothing
  <1>1. StepKeeps => (merges' # merges => MergeAccounted)
    BY DEF StepKeeps
  <1> QED BY <1>1, DevicesInvariant, PTL DEF MergeLosesNothing, MergeAccounted

\* The reading LatestQuotas shows for a device moves forward only, until the
\* device's rows are merged away.
THEOREM PanelMovesForward == Spec => PanelNeverGoesBack
  <1>1. StepKeeps => (quotas' # quotas => PanelKept)
    BY DEF StepKeeps
  <1> QED BY <1>1, DevicesInvariant, PTL DEF PanelNeverGoesBack, PanelKept
=============================================================================
