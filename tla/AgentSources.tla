---------------------------- MODULE AgentSources ----------------------------
(***************************************************************************)
(* What feeds the upload path of an agent: the resident loop of            *)
(* internal/agent/agent.go (scan, process report, captured quota), the API *)
(* proxy's retry ring (internal/proxy/proxy.go) and the quota file that    *)
(* the status line leaves behind (internal/statusline/ratelimits.go, read  *)
(* by internal/collect/statusquota.go).  A v2 agent pushes into the        *)
(* outbox, which Delivery drains; a v1 agent posts to the hub and waits    *)
(* for the answer, perhaps through another agent's relay.                  *)
(*                                                                         *)
(* An item stands for an event, a quota reading or a process report: what  *)
(* it is (an event's id, a capture's time) and the device it is filed      *)
(* under.  A payload is the sequence of items one envelope carries.        *)
(***************************************************************************)
EXTENDS Delivery, SequencesExt

CONSTANTS
    Worlds,        \* configurations: protocol, proxy, relay and until when
                   \* the status line captures quotas (0: not set up)
    DeviceName,    \* the configured name; Device is the enrolled id
    Calls,         \* API calls made through the proxy, by the event's id
    ProcsId,       \* stands for the process report
    ScanBatches,   \* what a pass over the logs may find: sequences of ids
    RingCap,       \* proxyRingCap
    MaxQuotaAge    \* maxQuotaAge

VARIABLES
    world,         \* the configuration, fixed
    pc,            \* where the resident loop is
    ring,          \* proxyEmitter.buf
    pending,       \* calls whose emit goroutine has not run yet
    observed,      \* history: calls the proxy has observed
    emitted,       \* history: calls emitted since the process started
    capture,       \* observed_at of rate-limits.json, 0 while there is none
    lastObserved,  \* StatusQuotaReader.lastObserved
    clock,
    posted,        \* history: calls and readings the hub took (v1)
    outage         \* history: a sink failed, or the process was restarted

proxyVars == <<ring, pending, observed, emitted>>
quotaVars == <<capture, lastObserved, clock>>
agentVars == <<world, pc, proxyVars, quotaVars, posted, outage>>

IsV2 == world.protocol = 2

AgentInit ==
    /\ Init
    /\ world \in Worlds
    /\ pc = "scan"
    /\ ring = <<>> /\ pending = {} /\ observed = {} /\ emitted = <<>>
    /\ capture = 0 /\ lastObserved = 0 /\ clock = 1
    /\ posted = {} /\ outage = FALSE

-----------------------------------------------------------------------------
(* The sink.                                                               *)

\* The identity scans and quota readings are filed under.
ScanDevice == IF IsV2 THEN Device ELSE DeviceName

\* The first observation of each id; an envelope that repeats one is refused.
CollapseStep(kept, item) ==
    IF \E i \in DOMAIN kept : kept[i].id = item.id
    THEN kept ELSE Append(kept, item)

CollapseRepeatedEventIDs(items) ==
    LET kept[n \in 0..Len(items)] ==
            IF n = 0 THEN <<>> ELSE CollapseStep(kept[n - 1], items[n])
    IN  kept[Len(items)]

\* A batch too large for one envelope is halved until its parts fit: split[n]
\* partitions each run of n items, by the number of items before it.
Fits(items) == Bytes[items] <= MaxEnvelopeBytes \/ Len(items) <= 1

Halved(items, split, n) ==
    [lo \in 0..(Len(items) - n) |->
        LET run == SubSeq(items, lo + 1, lo + n)
            middle == n \div 2
        IN  IF Fits(run) THEN <<run>>
            ELSE split[middle][lo] \o split[n - middle][lo + middle]]

PartitionEventEnvelopes(items) ==
    LET split[n \in 0..Len(items)] == Halved(items, split, n)
    IN  split[Len(items)][0]

\* ValidateIngestEnvelope: ids are distinct and every item is the device's.  (The
\* modelled sources never send an empty id, nor more than the 2000 events of
\* MaxIngestBatchEvents.)
ValidateIngestEnvelope(items) ==
    /\ \A i \in DOMAIN items : items[i].device = Device
    /\ \A i, j \in DOMAIN items : items[i].id = items[j].id => i = j

\* Mutant: the chunks of one push share a batch id.
SharedBatchID(chunks) ==
    {[i \in DOMAIN chunks |-> b] : b \in Batches \ UsedBatches}

\* prepareEnvelope gives each chunk an id of its own.
BatchIDs(chunks) == {ids \in [DOMAIN chunks -> Batches] : FreshIds(ids)}

\* The times at which the status line may capture a reading.
Captures == UNION {1..w.until : w \in Worlds}

\* Process reports are latest-only and logs can be read again: what only a
\* push can save are the calls and the readings.
Kept(items) == {item \in items : item.id \in Calls \cup Captures}

\* enqueueEvents, enqueueEnvelope: every chunk becomes durable or none does.
\* A full queue, an exhausted counter, an item no envelope can hold or a
\* database error is an outage; an envelope that does not validate fails for
\* good.
EnqueueItems(items, ok) ==
    LET kept == CollapseRepeatedEventIDs(items)
    IN  IF ok
        THEN /\ ValidateIngestEnvelope(kept)
             /\ LET chunks == PartitionEventEnvelopes(kept)
                IN  \E ids \in BatchIDs(chunks) : EnqueueManyNext(chunks, ids)
             /\ UNCHANGED <<outage, posted>>
        ELSE /\ outage' = (outage \/ ValidateIngestEnvelope(kept))
             /\ UNCHANGED <<outboxVars, posted>>

\* A relay forwards what carries its token and fits its limit; with a wrong
\* token the agent behind it is cut off.
RelayForward == world.relay # "refuses"

\* postIngest: 200, or an error before or after the hub took the payload.
PostIngest(items, ok) ==
    /\ ok => RelayForward
    /\ \/ RelayForward /\ posted' = posted \cup Kept(ToSet(items))
       \/ ~ok /\ UNCHANGED posted
    /\ outage' = (outage \/ ~ok)
    /\ UNCHANGED outboxVars

\* push, pushQuotas: the sink of every source, with its result.
Push(items, ok) ==
    /\ IF IsV2 THEN EnqueueItems(items, ok) ELSE PostIngest(items, ok)
    /\ UNCHANGED <<world, hub, conn>>

Nothing == UNCHANGED <<world, outboxVars, hub, conn, posted, outage>>

-----------------------------------------------------------------------------
(* The resident loop.                                                      *)

\* One pass of Run: v1 reports processes after the scan, v2 with heartbeats.
AfterScan == IF IsV2 THEN "quota" ELSE "procs"

Filed(ids, device) ==
    [i \in DOMAIN ids |-> [id |-> ids[i], device |-> device]]

\* scanOnce: the logs give a batch (with repeated ids), or nothing new.
ScanOnce ==
    /\ pc = "scan"
    /\ pc' = AfterScan
    /\ \/ Nothing
       \/ \E batch \in ScanBatches, ok \in BOOLEAN :
            Push(Filed(batch, ScanDevice), ok)
    /\ UNCHANGED <<proxyVars, quotaVars>>

\* reportProcs: latest-only, so a failed report is not kept.  The process
\* table may be unreadable.
ReportProcs ==
    /\ pc = "procs"
    /\ pc' = "quota"
    /\ \/ Nothing
       \/ \E ok \in BOOLEAN : Push(<<[id |-> ProcsId, device |-> ScanDevice]>>, ok)
    /\ UNCHANGED <<proxyVars, quotaVars>>

\* A capture is reported once, and only while it may still be true.
Reportable ==
    /\ capture > 0
    /\ capture # lastObserved
    /\ clock - capture <= MaxQuotaAge

Reading(t) == [id |-> t, device |-> ScanDevice]

\* Mutant: a capture counts as reported even when it is too old to report.
MarkStatusQuota ==
    /\ pc = "quota"
    /\ pc' = "scan"
    /\ lastObserved' = capture
    /\ IF Reportable
       THEN \E ok \in BOOLEAN : Push(<<Reading(capture)>>, ok)
       ELSE Nothing
    /\ UNCHANGED <<proxyVars, capture, clock>>

\* collectStatusQuota, and with it the end of Run's pass: the reader counts
\* the capture as reported before it is pushed.  The next pass follows after
\* the interval or the backoff.
CollectStatusQuota ==
    /\ pc = "quota"
    /\ pc' = "scan"
    /\ IF Reportable
       THEN /\ lastObserved' = capture
            /\ \E ok \in BOOLEAN : Push(<<Reading(capture)>>, ok)
       ELSE Nothing /\ UNCHANGED lastObserved
    /\ UNCHANGED <<proxyVars, capture, clock>>

-----------------------------------------------------------------------------
(* The proxy, the status line, time and restarts.                          *)

\* ServeHTTP has relayed a response to its end (or the client went away):
\* one observation, emitted by a goroutine of its own, also when the answer
\* carries no usage (a timing-only event).  A call that it refuses or cannot
\* forward observes nothing and changes nothing here.
ServeHTTP(call) ==
    /\ world.proxy
    /\ call \notin observed
    /\ observed' = observed \cup {call}
    /\ pending' = pending \cup {call}
    /\ Nothing
    /\ UNCHANGED <<pc, ring, emitted, quotaVars>>

\* The event of a call: proxy.Config.Device is the configured name.
Observation(call) == [id |-> call, device |-> DeviceName]

\* The newest RingCap events survive.
Newest(buf) ==
    IF Len(buf) > RingCap
    THEN SubSeq(buf, Len(buf) - RingCap + 1, Len(buf)) ELSE buf

\* Mutant: a failed sink leaves nothing to send again.
Forgotten(buf, ok) == <<>>

\* What stays in the ring after the sink answered.
Buffered(buf, ok) == IF ok THEN <<>> ELSE buf

\* emit, under the emitter's mutex: the new event goes out behind the ones
\* that failed before.
Emit(call) ==
    LET buf == Newest(Append(ring, Observation(call)))
    IN  /\ call \in pending
        /\ pending' = pending \ {call}
        /\ emitted' = Append(emitted, call)
        /\ \E ok \in BOOLEAN : Push(buf, ok) /\ ring' = Buffered(buf, ok)
        /\ UNCHANGED <<pc, observed, quotaVars>>

\* captureRateLimits replaces the file in one rename.
CaptureRateLimits ==
    /\ capture # clock
    /\ clock <= world.until
    /\ capture' = clock
    /\ Nothing
    /\ UNCHANGED <<pc, proxyVars, lastObserved, clock>>

Tick ==
    /\ clock < world.until
    /\ clock' = clock + 1
    /\ Nothing
    /\ UNCHANGED <<pc, proxyVars, capture, lastObserved>>

\* The process dies and is started again: what was only in memory is gone.
Restart ==
    /\ pc' = "scan" /\ lastObserved' = 0
    /\ ring' = <<>> /\ pending' = {} /\ emitted' = <<>>
    /\ outage' = TRUE
    /\ UNCHANGED <<world, outboxVars, hub, conn, posted>>
    /\ UNCHANGED <<observed, capture, clock>>

\* What the sources may push under the identities they file under: a pass
\* over the logs, a reading, or the proxy's ring.
Pushes ==
    {Filed(ids, Device) : ids \in ScanBatches}
        \cup {<<[id |-> t, device |-> Device]>> : t \in Captures}
        \cup {Filed(calls, DeviceName) :
                calls \in UNION {[1..k -> Calls] : k \in 1..RingCap}}

\* The ring holds something, and Delivery's Payloads and MaxChunks are large
\* enough for whatever the sources push.
ASSUME AgentConstants ==
    /\ RingCap \in Nat \ {0}
    /\ \A w \in Worlds : w.proxy \in BOOLEAN /\ w.until \in Nat
    /\ \A ids \in ScanBatches : ids \in Seq(ToSet(ids))
    /\ \A items \in Pushes :
        LET kept == CollapseRepeatedEventIDs(items)
            chunks == PartitionEventEnvelopes(kept)
        IN  ValidateIngestEnvelope(kept) =>
                Len(chunks) <= MaxChunks /\ ToSet(chunks) \subseteq Payloads

\* Uploads and the hub are Delivery's.
Upload ==
    /\ \/ \E u \in Uploaders : UploaderStep(u)
       \/ \E c \in Conns : HubStep(c)
       \/ RevokeStep
    /\ UNCHANGED agentVars

Source ==
    \/ ScanOnce \/ ReportProcs \/ CollectStatusQuota
    \/ \E call \in Calls : ServeHTTP(call) \/ Emit(call)
    \/ CaptureRateLimits \/ Tick \/ Restart

AgentNext == Source \/ Upload

AgentSpec == AgentInit /\ [][AgentNext]_<<vars, agentVars>> /\ Fairness

-----------------------------------------------------------------------------
(* Properties.                                                             *)

\* What the hub (v1) or the durable outbox (v2) has taken.
Arrived ==
    posted \cup UNION {ToSet(enqueued[n].payload) : n \in DOMAIN enqueued}

\* "Transient server outages lose nothing" (proxy.Run), and without one
\* nothing is lost at all: every call the proxy observed is on its way to the
\* ring, in it, or was taken by the sink, and so was every capture the reader
\* will not look at again.
LossNeedsOutage ==
    outage
    \/ /\ \A call \in observed :
            \/ call \in pending
            \/ Observation(call) \in ToSet(ring) \cup Arrived
       /\ lastObserved # 0 => Reading(lastObserved) \in Arrived

\* However long the sink fails and whatever it took before it failed, the
\* proxy holds on to the newest events, in the order they were emitted: an
\* event that is neither in the ring nor taken was pushed out by RingCap
\* younger ones.
NewestEventsKept ==
    LET Event(n) == Observation(emitted[n])
    IN  /\ Len(ring) <= RingCap
        /\ IsSuffix(ring, [n \in DOMAIN emitted |-> Event(n)])
        /\ \A n \in DOMAIN emitted : n > Len(emitted) - RingCap =>
                Event(n) \in ToSet(ring) \cup Arrived

\* Whatever the sources push, the upload path sees the deliveries it was
\* built for: envelopes that validate, fit and carry fresh numbers.
RefinesDelivery == Spec
=============================================================================
