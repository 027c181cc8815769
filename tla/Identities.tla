----------------------------- MODULE Identities -----------------------------
(***************************************************************************)
(* The names a hub files things under, and the administrator's merge of    *)
(* two of them (internal/store/devicemerge.go, internal/server/            *)
(* devicemerge.go, fleetdevices.go).  A name is any string an event, a     *)
(* quota reading or a process report came in with; the registry takes no   *)
(* part in a merge, but the fleet view combines the two.  The readings are *)
(* those of one series (source, limit_id, scope and window_minutes): the   *)
(* statements over them group or match by it.                              *)
(***************************************************************************)
EXTENDS Registry, Sequences

CONSTANTS
    Events,     \* event ids
    MaxMerges   \* bound on the audit log

VARIABLES
    events,     \* table events: event id -> device and device_origin
    quotas,     \* table quota_snapshots, rows [device, at, reset, percent];
                \* the reset time, in minutes, tells the windows apart
    labels,     \* setting device_labels: name -> label
    merges,     \* setting device_merges: the audit log
    gone        \* history: per name, the events its last merge moved away and
                \* that no self-report has claimed since

identityVars == <<events, quotas, labels, merges, gone>>

-----------------------------------------------------------------------------
(* Arrivals.                                                               *)

\* InsertEvents as far as attribution goes: a new id is filed under its
\* device; a self-report claims a row that was only observed (ADR-0015).
FileEvent(e, device, origin) ==
    LET claims == e \in DOMAIN events
                    /\ events[e].origin = "observed" /\ origin = "self"
    IN  /\ e \notin DOMAIN events \/ claims
        /\ events' = Upsert(events, e, [device |-> device, origin |-> origin])
        /\ gone' = [d \in Ids |-> IF claims THEN gone[d] \ {e} ELSE gone[d]]
        /\ UNCHANGED <<quotas, labels, merges>>

\* handlePutSettings: the panel's map replaces the stored one, whatever the
\* panel had read before.
PutLabels(map) ==
    /\ labels' = map
    /\ UNCHANGED <<events, quotas, merges, gone>>

-----------------------------------------------------------------------------
(* The merge.                                                              *)

EventsOf(name) == {e \in DOMAIN events : events[e].device = name}
QuotasOf(name) == {q \in quotas : q.device = name}
SessionsOf(name) == {s \in sessions : s.device = name}

DeviceIdentityExists(name) ==
    \/ EventsOf(name) # {} \/ QuotasOf(name) # {}
    \/ SessionsOf(name) # {} \/ name \in DOMAIN reports

\* Source rows whose whole key the target has too; the reset time is no part
\* of the key.
Collisions(from, to) ==
    {s \in QuotasOf(from) : \E t \in QuotasOf(to) : t.at = s.at}

\* Mutant: UPDATE OR REPLACE, which keeps the row that is moved.
SourceWins(from, to) ==
    {t \in QuotasOf(to) : \E s \in QuotasOf(from) : t.at = s.at}

\* Of two readings with one key the target's stays.
Dropped(from, to) == Collisions(from, to)

Moved(rows, from, to) ==
    {IF q.device = from THEN [q EXCEPT !.device = to] ELSE q : q \in rows}

\* mergeDeviceLabel: the source's label moves if the target has none.
MergedLabels(from, to) ==
    LET rest == DOMAIN labels \ {from}
    IN  IF from \in DOMAIN labels
        THEN [n \in rest \cup {to} |-> IF n \in rest THEN labels[n] ELSE labels[from]]
        ELSE labels

\* planDeviceMerge: what is refused, and the counts for the audit record.
DeviceMergePlan(from, to) ==
    [from |-> from, to |-> to, events |-> Cardinality(EventsOf(from)),
     quotas |-> Cardinality(QuotasOf(from) \ Collisions(from, to)),
     dropped |-> Cardinality(Collisions(from, to)),
     live |-> Cardinality(SessionsOf(from))
                + (IF from \in DOMAIN reports THEN 1 ELSE 0)]

\* MergeDeviceIdentity, one transaction.
MergeDeviceIdentity(from, to) ==
    /\ Len(merges) < MaxMerges
    /\ from # to
    /\ DeviceIdentityExists(from) /\ DeviceIdentityExists(to)
    /\ quotas' = Moved(quotas \ Dropped(from, to), from, to)
    /\ sessions' = sessions \ SessionsOf(from)
    /\ reports' = [n \in DOMAIN reports \ {from} |-> reports[n]]
    /\ events' = [e \in DOMAIN events |->
            IF e \in EventsOf(from) THEN [events[e] EXCEPT !.device = to]
            ELSE events[e]]
    /\ labels' = MergedLabels(from, to)
    /\ merges' = Append(merges, DeviceMergePlan(from, to))
    /\ gone' = [gone EXCEPT ![from] = EventsOf(from)]
    /\ UNCHANGED <<devices, bindings, heartbeats, request, clock>>

-----------------------------------------------------------------------------
(* The fleet view.                                                         *)

\* Mutant: a chain of merges is not followed.
LastTarget(aliases, m) == Upsert(aliases, m.from, m.to)

\* One audit record folded into the alias map of fleetDevices.
Follow(aliases, m) ==
    Upsert([d \in DOMAIN aliases |->
                IF aliases[d] = m.from THEN m.to ELSE aliases[d]], m.from, m.to)

\* The map after each record of a log, and so after all of them.
AliasesAfter(log) ==
    LET after[n \in 0..Len(log)] ==
            IF n = 0 THEN Empty ELSE Follow(after[n - 1], log[n])
    IN  after[Len(log)]

Aliases == AliasesAfter(merges)

\* fleetDevices: revoked principals merged into a registered one are left out.
FleetDevices ==
    {d \in ListDevices :
        ~(/\ devices[d].revokedAt > 0
          /\ d \in DOMAIN Aliases
          /\ Aliases[d] # d
          /\ Aliases[d] \in Registered)}
=============================================================================
