----------------------------- MODULE HubDevices -----------------------------
(***************************************************************************)
(* The hub's tables about devices, composed: registry, names and their     *)
(* merge, readings and their calibration, all in one database.  A world is *)
(* what goes on in one behaviour: its activities, the devices they are     *)
(* about and the readings taken, a bound of the model.                     *)
(***************************************************************************)
EXTENDS Capacity

CONSTANTS
    Worlds,   \* records [does, ids, registered, looks]
    TokenOf   \* the credential each device registered with

ASSUME HubDevicesConstants ==
    /\ \A w \in Worlds :
        /\ w.ids \subseteq Ids /\ w.registered \subseteq Ids
        /\ \A d \in w.registered : TokenOf[d] \in Tokens
        /\ w.looks \subseteq [reset : Nat, percent : Nat]
    /\ Names # {} /\ IsFiniteSet(Events) /\ IsFiniteSet(Pids)
    /\ {MaxTime, MinPeak, BackfillWindow, PanelWindow} \subseteq Nat

VARIABLE world

vars == <<registryVars, clock, identityVars, capacityVars, world>>

Does(activity) == activity \in world.does

Init ==
    /\ world \in Worlds
    /\ devices = [d \in world.registered |-> Fresh(TokenOf[d], CHOOSE n \in Names : TRUE)]
    /\ bindings = Empty
    /\ heartbeats = Empty
    /\ sessions = {}
    /\ reports = Empty
    /\ clock = 1
    /\ request = [c \in Conns |-> Idle]
    /\ events = Empty
    /\ quotas = {}
    /\ labels = Empty
    /\ merges = <<>>
    /\ gone = [d \in Ids |-> {}]
    /\ spent = {}
    /\ capacity = Empty
    /\ observers = {}
    /\ backfill = [due |-> TRUE, todo |-> {}]
    /\ missed = {}

Readings ==
    {[device |-> d, at |-> at, reset |-> look.reset, percent |-> look.percent] :
        d \in world.ids, at \in 1..MaxTime, look \in world.looks}

-----------------------------------------------------------------------------
(* What the administrator, the agents and the clock do to the registry.     *)

EnrolMachine ==
    /\ Does("machine")
    /\ \E m \in Machines \cap world.ids, id \in world.ids, t \in Tokens, n \in Names :
            EnrollMachineDevice(m, id, t, n)

EnrolDevice ==
    /\ Does("enrol")
    /\ \E c \in Conns, id \in world.ids, t \in Tokens, n \in Names : LookUp(c, id, t, n)

Revoke ==
    /\ Does("revoke")
    /\ \E id \in world.ids : RevokeDevice(id)

Beat ==
    /\ Does("beat")
    /\ \E c \in Conns, id \in world.ids, t \in Tokens, p \in LiveProcesses :
            Heartbeat(c, id, t, p)

Report ==
    /\ Does("report")
    /\ \E id \in world.ids, at \in 1..MaxTime, p \in LiveProcesses \ {NoReport} :
            ReportProcs(id, at, p)

Handle == \E c \in Conns : HandlerStep(c)

RegistryStep ==
    /\ \/ EnrolMachine \/ EnrolDevice \/ Revoke \/ Beat \/ Report \/ Handle
       \/ Does("tick") /\ Tick
    /\ UNCHANGED <<identityVars, capacityVars, world>>

-----------------------------------------------------------------------------
(* Arrivals, the panel, merges and the calibration.                         *)

Arrive ==
    /\ Does("arrive")
    /\ \E e \in Events, d \in world.ids, origin \in {"self", "observed"} :
            FileEvent(e, d, origin)
    /\ UNCHANGED <<registryVars, clock, capacityVars, world>>

Label ==
    /\ Does("label")
    /\ \E map \in UNION {[names -> Names] : names \in SUBSET world.ids} : PutLabels(map)
    /\ UNCHANGED <<registryVars, clock, capacityVars, world>>

Merge ==
    /\ Does("merge")
    /\ \E from, to \in world.ids : MergeDeviceIdentity(from, to)
    /\ UNCHANGED <<capacityVars, world>>

Read ==
    /\ Does("read")
    /\ \E q \in Readings : InsertQuotas(q)
    /\ UNCHANGED <<registryVars, clock, world>>

ReadV2 ==
    /\ \E q \in Readings : InsertQuotasTx(q)
    /\ UNCHANGED <<registryVars, clock, world>>

Calibrate ==
    /\ Does("calibrate")
    /\ \/ \E reset \in {look.reset : look \in world.looks}, ts \in 1..MaxTime : Spend(reset, ts)
       \/ \E o \in observers : ReadPeak(o) \/ WritePeak(o) \/ DropObservation(o)
       \/ BeginBackfill \/ BackfillErrs
       \/ \E p \in backfill.todo : BackfillCapacity(p)
    /\ UNCHANGED <<registryVars, clock, identityVars, world>>

\* A restart ends every handler, too.
Crash ==
    /\ Does("crash")
    /\ Restart
    /\ request' = [c \in Conns |-> Idle]
    /\ UNCHANGED <<devices, bindings, heartbeats, sessions, reports, clock>>
    /\ UNCHANGED <<identityVars, world>>

Next == RegistryStep \/ Arrive \/ Label \/ Merge \/ Read \/ Calibrate \/ Crash

Spec == Init /\ [][Next]_vars

\* A hub whose agents deliver readings over protocol v2, too.
SpecV2 == Init /\ [][Next \/ ReadV2]_vars

-----------------------------------------------------------------------------
(* Properties.                                                             *)

\* Whatever order reports and heartbeats arrive in, on whatever path and with
\* whatever handlers cut short or names merged in between, the live rows of a
\* device are those of its newest report and of no older one; so at no cutoff
\* does the panel show sessions of a device that it takes for silent.
LiveRowsMatchReport ==
    /\ \A s \in sessions : s.device \in DOMAIN reports /\ reports[s.device] = s.at
    /\ \A since \in 1..MaxTime :
            {s.device : s \in RunningSessions(since)} \subseteq ProcReporters(since)

\* No order of enrolments, re-enrolments and revocations moves a machine to
\* another device, puts two machines on one, clears a revocation, or changes
\* the credential of a device that no machine is bound to, or that is revoked.
CredentialsFollowBinding ==
    [][/\ \A m \in DOMAIN bindings : m \in DOMAIN bindings' /\ bindings'[m] = bindings[m]
       /\ \A m, n \in DOMAIN bindings' : bindings'[m] = bindings'[n] => m = n
       /\ \A d \in Registered :
            /\ d \in DOMAIN devices'
            /\ devices[d].revokedAt > 0 => devices'[d].revokedAt > 0
            /\ devices'[d].token # devices[d].token =>
                    d \in Bound /\ devices[d].revokedAt = 0]_<<devices, bindings>>

\* A merge changes the device of the source's events and nothing else about
\* any event; keeps each of the target's readings and, of the source's, every
\* look the target did not take itself; leaves nothing under the source; and
\* the rows that are gone afterwards are as many as the audit record says.
MergeLosesNothing ==
    [][merges' # merges =>
        LET m == merges'[Len(merges')]
        IN  /\ DOMAIN events' = DOMAIN events
            /\ \A e \in DOMAIN events :
                /\ events'[e].origin = events[e].origin
                /\ events'[e].device = IF events[e].device = m.from THEN m.to
                                       ELSE events[e].device
            /\ QuotasOf(m.to) \subseteq quotas'
            /\ \A q \in QuotasOf(m.from) : \E r \in quotas' :
                    r.device = m.to /\ r.at = q.at
            /\ \A q, r \in quotas' : q.device = r.device /\ q.at = r.at => q = r
            /\ Cardinality(quotas) - Cardinality(quotas') = m.dropped
            /\ \A d \in Ids : d = m.from => ~DeviceIdentityExists(d)'
            /\ m.from \notin DOMAIN labels']_vars

\* The alias the fleet view folds out of the audit log is where the events are
\* that a name's last merge took away, whatever chain or circle of merges came
\* after it; so a principal the fleet leaves out has them under a registered
\* one.
AliasFollowsHistory ==
    /\ \A d \in Ids : \A e \in gone[d] : events[e].device = Aliases[d]
    /\ \A d \in Registered \ FleetDevices : \A e \in gone[d] :
            events[e].device \in Registered

\* The reading the panel shows for a device never gives way to one about an
\* older window, nor to an older look at the same one, although sessions that
\* captured their numbers hours ago keep reporting them as of now and names
\* are merged (comment on LatestQuotas: "The two alternated").
PanelNeverGoesBack ==
    [][quotas' # quotas => \A d \in Ids :
        \/ \A q \in LatestQuotas(d) : \E r \in LatestQuotas(d)' :
            \/ r.reset \div 60 > q.reset \div 60
            \/ r.reset \div 60 = q.reset \div 60 /\ r.at >= q.at
        \/ merges' # merges /\ merges'[Len(merges')].from = d]_vars

\* Once no observation or backfill is under way, the calibration of a window
\* has seen the highest stored reading that is worth learning from, whatever
\* readings raced each other, were lost in a restart or were filed under another
\* name by a merge.  The code gives up a look, and `missed` counts it, in these
\* cases only: its observation errs or finds no tokens in the window; at a start
\* it is older than the backfill reaches; the backfill errs before its window's
\* turn, or finds no tokens up to the window's highest look.  It does not count
\* as missed while an observation of it is under way, nor once a later backfill
\* reaches back to it.
CapacityFollowsReadings ==
    observers = {} /\ ~backfill.due /\ backfill.todo = {} =>
        \A q \in quotas : Look(q) \notin missed /\ q.percent >= MinPeak =>
            q.reset \in DOMAIN capacity /\ capacity[q.reset].peak >= q.percent
=============================================================================
