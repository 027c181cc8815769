# OmniToken in TLA+

This directory specifies OmniToken, a self-hosted collector of AI-tool token
usage: the path from a log line on a developer's machine to a row in the hub's
event table and to the screen that shows it, the tables the hub keeps about the
machines themselves, and the login in front of them. TLC checks the
specifications on small instances; TLAPS proves most of the safety properties for
every size.

Contents: [1 Inventory](#1-inventory) · [2 Plan](#2-plan) · [3 Modules](#3-modules)
· [4 Runs](#4-runs) · [5 Fairness](#5-fairness) · [6 Proofs](#6-proofs)
· [7 Disagreements](#7-where-the-code-and-what-is-said-of-it-disagree)
· [8 Not modelled](#8-what-is-not-modelled)

To check: `tlc -workers 2 -config MCDelivery.cfg MCDelivery` (and so on for the
table in section 4), `tlapm DeliveryProofs.tla` (and so on for the proof modules of
section 6).

## 1 Inventory

```
 tool logs ──► collect.ScanSources ──► sink ──► Outbox (SQLite) ──► uploadOldest ─┐
 (jsonl)        state file             │                                          │ HTTP v2
 statusline, proxy, auth probes ───────┘                                          ▼
                                            AuthenticateDevice ─► ApplyIngestV2 (receipt + payload)
 hub's own collector, SSH mirrors, v1 push ───────────────────────► insertEventsFromTx
                                                                          │ bcast.Notify
 dashboard, desktop ◄── respCache ◄── reports, prices      SSE ◄── liveBroadcaster
```

| Component (code) | State | Operations | What makes it hard | What makes it correct |
|---|---|---|---|---|
| Outbox (`agent/outbox.go`) | `outbox_batches`, sequence counter | `EnqueueManyNext`, `PeekBatch`, `Acknowledge` | two processes share the file; capacity; counter width | row order = sequence order; nothing leaves unapplied |
| Uploaders (`agent/agent.go`) | none durable | `uploadOldest`, retry, drain | lost answers, timeouts, two uploaders on one head | exactly once, in order |
| Hub ingest v2 (`server/ingestv2.go`, `store/ingestv2.go`) | `ingest_receipts` | authenticate, apply, replay, conflict | concurrent handlers, abandoned requests, revocation in between | one receipt per applied batch |
| Collector (`collect/scan.go`, `state.go`) | offsets, turn starts, in-flight ledger, chunk keys | one pass over all files | files grow and shrink under the reader; crash at any step; a sink that refuses half a file | nothing before the offset is missing; piecewise parse = full parse |
| Parsers (`parser/*`) | none | `ParseFunc` | late records change earlier events | only complete lines; turn boundaries |
| Event table (`store/store.go`) | `events` | insert, dedup, merge, migrate | many channels in any order; stale gates in one batch | order-independent survivor, idempotent, exact change report |
| Response cache (`server/respcache.go`) | map of entries, some in flight | `bytes`, `clear` | stale computation after reload; nested use | no answer from an old price table; nobody waits for ever |
| Price reload (`server/pricingrefresh.go`, `settingsview.go`) | catalog, overrides, table | fetch, build, swap, clear, notify | concurrent saves and refresh | the table only advances |
| Live stream (`server/live.go`) | one-slot channels | subscribe, notify, coalesce, tick | signals dropped by design | no signal is lost, every write is shown |
| Agent sources (`agent/agent.go`, `proxy`, `statusline`, `collect/statusquota.go`) | retry ring, capture file, reader's memory | scan, report, collect, emit, push, relay | a sink that takes a batch and reports an error; restarts; two transports with different identities | the newest events survive; a v2 agent is an uploader of Delivery and nothing else |
| Device registry, heartbeat (`store/deviceregistry.go`, `server/heartbeat.go`) | `devices`, `device_heartbeats` | enrol, authenticate, revoke, beat | a handler of four statements among others; revocation in between | a credential changes only by the machine it is bound to |
| Machine identity, device merge (`store/machineidentity.go`, `devicemerge.go`, `server/fleetdevices.go`) | bindings, labels, audit log | bind, merge, fold aliases | chains and circles of merges, reports under a merged name, readings of one instant | a merge loses nothing; the alias is where the history is |
| Process reports (`store/procs.go`, `collect/procs.go`) | `live_sessions`, `live_reports` | report, read with a cutoff | three paths with two clocks, late and repeated | rows are those of the newest report |
| Quotas, capacity (`store/quota.go`, `capacity.go`) | readings, samples | insert, observe, backfill, show | observation after the commit, racing; restart; errors that are only logged; stale sessions | the calibration has seen the highest reading that was not given up; the panel never goes back |
| Site authentication (`siteauth`) | codes, sessions, passkeys, challenges, limiter | login by code or passkey, register, logout | ceremonies overlapping, answers lost, table full | one session per code; a login ends the old session unless its statements err; counters only grow; nobody is locked out for ever |
| Hub collector, SSH mirror (`server/collector.go`, `collect/ssh.go`) | schedule | due, mirror, scan | overlap, failure back-off | every host is mirrored in turn |
| Reports, windows, work time (`store/reports.go`, ...) | none | SQL and pure Go | boundaries | agree with a reference |
| Pricing, settings, CLI, desktop, web | small or none | | | |

Components interact by calls (scan → sink → outbox; handler → store), by one HTTP
request with a durable receipt (outbox ↔ hub), by shared SQLite files (two agent
processes; all hub handlers), by a file (status line → quota reader), and by one
callback (writers → broadcaster).

## 2 Plan

Ordered by what would hurt most if it were wrong. Done: 1–11.

1. `Outbox`, `HubIngest`, `Delivery`, abstract `Channel`: exactly-once delivery.
2. `DeliveryProofs`, `HubIngestProofs`: the same for every size.
3. `Collector`: no loss between log and sink.
4. `EventStore`: what many channels do to one row.
5. `RespCache`, `LiveStream`, composed in `HubViews`: what the reader sees.
6. The inductive invariants behind 1 as lemmas by action.
7. `AgentSources`: what feeds the upload path; the v2 agent refines `Delivery`.
8. `Registry` (enrolment, heartbeats, process reports) and `Identities` (merge,
   aliases).
9. `Capacity` (readings and calibration), composed with 8 in `HubDevices`.
10. `SiteAuth`: the login.
11. Proofs of the table, the read side, the devices, the login, the collector and the
    agent.
12. Two processes on one state file; the mirror schedule (`sshScheduler.Due`); usage
    blocks and work-time intervals against reference definitions.

New components are composed with those that share their tables, so that runs ask
about the system rather than about one file.

## 3 Modules

**Outbox.** `outbox` is the table (rows with their autoincrement id), `lastSequence`
the counter in `outbox_meta`, `enqueued` a history. `EnqueueManyNext` is one SQLite
transaction and one action: sequence check, envelope limit, capacity, rows, counter.
`Acknowledge` deletes the head if device, batch and sequence match and otherwise
changes nothing. An envelope is a record with an abstract payload; `Bytes` gives its
encoded size. UUIDs are members of `Batches` not used before.

**HubIngest.** `handler[c]` is how far the request on connection `c` has come. A
handler authenticates in one step and applies in another, as the code does in two
database accesses. `ApplyNew` is the receipt transaction with its payload; `Replay`
answers with the stored receipt or with 409. `Fail` stands for a request lost, a
500, or a hub stopped before the commit. `Revoke` is the admin's action.

**Delivery** composes the two with uploaders. An uploader peeks and posts (`Post`),
then reads an answer, a refusal, or gives up (`Abandon`: timeout or death of the
process), while the handler goes on. **Channel** is the abstract specification: a
sequence of accepted messages and a prefix of it that has been delivered.

**Collector.** One action per step of `scanFile` between which other things happen:
`Stat`, `ParseFile` (with `BeginScan`), `Deliver`, `Mark`, `Commit`; plus the writers
of the logs (`Write`, `Truncate`), the failures (`Interrupt`: crash, refusing sink,
failing save; `Unreadable`) and `Forget` (corrupt state, `-rescan`). Time stamps are
unique and double as event ids; a complete line has two bytes, an unfinished one. The
stamps of a file increase, so the parser's sequences are sets: an event's place, which
decides its chunk, is the number of earlier ones. `Marks` are the two sizes `scanFile`
compares a file with, its offset and the end of its unfinished scan.
An event's `span` is the turn record its generation time is measured against: the
part of an event that depends on where a parse starts. State saves are atomic
(temporary file and rename; a failing save restores the memory copy), so one set of
variables stands for memory and disk.

**EventStore.** `Apply` is the transaction of `insertEventsFromTx`, a loop over the
batch (`after[n]`) of `ApplyEvent`, which keeps the code's statements, gates and order. `p` is the
row as read before the batch, on which the gates decide; the row being changed is the
current one. `strongest` and `observed` are histories. `Migrate` is the one-time
provider demotion, whose flag may be lost in a crash.

**RespCache.** A call of `bytes` hits, waits or computes; a body is represented by the
oldest price table that went into it, a table by the versions of catalog and overrides
it was built from. Entries may expire at any moment, which covers every time to live.
A reload is save or fetch, build, swap, clear; then the signal, in **HubViews**.
**LiveStream** has the writers, the one-slot channels and `handleStream`; a payload is
the version of what it reads. `HubViews` composes both over one price table.

**AgentSources** extends `Delivery` with what feeds it. An item is an event, a reading
or a process report with the identity it is filed under; a payload is the sequence of
items in one envelope. The resident loop is a cycle of `ScanOnce`, `ReportProcs` and
`CollectStatusQuota`; `Push` is the sink of all of them: for a v2 agent `EnqueueItems`
(collapse repeated ids, halve until each part fits, fresh batch ids, validate, one
transaction), for a v1 agent `PostIngest`, through a relay or not. `ServeHTTP` and `Emit`
are the proxy with its retry ring, `CaptureRateLimits` the status line. `Restart` empties
what is in memory. The loops of a push are recursive functions: `kept[n]` is what
`CollapseRepeatedEventIDs` has kept of the first `n` items, `split[n]` how
`PartitionEventEnvelopes` cuts each run of `n` items. `posted`, `observed`, `emitted` and
`outage` are histories; `posted` keeps the calls and readings (`Kept`), since logs can be
read again and process reports are latest-only. `RefinesDelivery` says that whatever the
sources do, the upload path only takes steps of `Delivery`, so the theorems about
`Delivery` hold of the agent. `Pushes` is what the sources can put into an outbox, for
the assumption that `Payloads` and `MaxChunks` of `Delivery` are large enough for it.

**Registry.** A table with a primary key is a function on its keys. `EnrollMachineDevice`
is one transaction; `handleEnrollV2` without a machine id and `handleHeartbeatV2` issue
several statements, and `request[c]` keeps what they have read in between, so that a
heartbeat writes back the display name it was authenticated with. A report by heartbeat
bears the hub's time, one in a batch or push the agent's, which may be behind or ahead.
**Identities** adds the rows filed under a name and `MergeDeviceIdentity`, whose
statements form one transaction; `Aliases` folds the audit log as `fleetDevices` does
(`AliasesAfter`).
`gone` is a history: the events a name's last merge took away. **Capacity** has the two
ways of storing a reading (`InsertQuotas` with observers, `InsertQuotasTx` of a v2 batch
without), the observer's read and write as two steps, and the backfill of a restart with
its age limit; a window holds as many tokens as events in it have arrived. A statement
that errs costs an observation (`DropObservation`) or what the backfill had left
(`BackfillErrs`): both are logged and forgotten. `missed` is a history of the looks given
up: by such an error; by an observation that would have raised the peak and found no
tokens; by a backfill that does not reach back to them, or that finds no tokens up to the
highest look of their window and skips the lower ones with it, although these may have
had some. A look is not given up while an observation of it is under way, and a backfill
that reaches it takes it out again.
**HubDevices** composes the three; a `world` says which activities go on.

**SiteAuth.** `request[r]` is how far a request has come through its handler; the steps
are the SQL statements and, under `ceremonyMu`, the ceremony. Lifetimes count down with
`Tick`. An answer may be lost (`cookies` keeps the old value); `signed` is the counter in
an authenticator; `printed` and `uses` are histories. Which checks of WebAuthn and of the
HMAC succeed is external: an assertion verifies if it answers a stored challenge with a
registered key and a counter beyond the stored one, or with none where none is stored
(`audience.counting` are the authenticators that count). `Fail` is an error the handler
answers; the errors of a login's last two statements are ignored by the code, so
`RotateErrs` goes on to a success that leaves the old session alive (stage `kept`).

The `MC*` modules give the constants; definitions under a comment `Mutant:` are
deliberately wrong variants of the definition below them and are used nowhere else.

## 4 Runs

Where one module has several environments, `Init` chooses one and it never changes
(`world`, `audience`, `deployment`): one run covers their union.

| Run | Distinct states | Question | Bounds and why they suffice |
|---|---|---|---|
| `delivery_safety` | 66 k | exactly once, in order, refinement of `Channel` | 2 uploaders (resident and `-once`), 3 connections so that an abandoned request overlaps both; 3 sequence numbers but 4 batch ids, so the counter is exhausted; a capacity of 2, so the queue is full; one payload over the envelope limit. Symmetric in ids, connections, uploaders |
| `agent_sources` | 61 k | newest events kept, no loss without an outage, refinement of `Delivery`, queue drains | v2 with captures, v1 with proxy, v1 with captures, v1 behind a refusing relay; a pass with a repeated id that needs two envelopes; a ring of 2 and 3 calls, so that it overflows; 2 instants and an age limit of 0 |
| `hub_ingest` | 161 k | receipts and answers under any clients | 3 handlers, 2 devices with colliding batch ids |
| `collector` | 668 k | nothing skipped, full-parse equality, ledger | an incremental file before a FullReparse one, 3 lines, chunks of 2: two chunks, a resumed scan and a reparse all occur. Worlds: everything failing over growing files; truncation with a failing sink; only the sink failing, with and without a collection window |
| `collector_liveness` | 13 k | every event delivered although passes are killed for ever | 2 files, 2 lines, chunks of 1 |
| `events` | 465 | idempotence, gates, survivor, evidence, change report | states are tables; each invariant ranges over all batches of up to 3 (forks) or 2 (merge) observations on each of them. Three copies with a tie in time, an unkeyed event, legacy rows without key; proxy, own log and mirror with every rank |
| `hub_views` | 96 k | cache, reload, stream | hubs that are polled (2 nested requests across a reload), administered (2 saves racing the refresher), streamed (a v2 and a v1 writer) |
| `hub_devices` | 1.1 M | device tables: reports, credentials, merges, aliases, calibration, panel | eight worlds. Enrolment: 2 ids that are machine ids too, 3 credentials, 2 requests at once. Heartbeats: 2 at once and reports at 2 instants. Merges: 3 names, 3 events and 3 merges, enough for a chain, a circle and a name merged twice; 2 names with readings of 2 windows at 2 instants, so that keys collide; labels. Calibration: 2 devices racing over one window, one device over two windows and a jittering boundary, restarts and errors at any point, age limits of 0 so that a reading of the first instant is too old at the second |
| `site_login` | 1.1 M | codes, sessions, passkeys, limiter | 2 requests at a time, 2 browsers, room for one passkey and one limiter entry; codes in two browsers, registration and passkey login in one, with an authenticator that counts and one that does not |
| `collector_emptied`, `proxy_v2_device`, `quota_v2_capacity` | violated | see section 7 | smallest instances that show the disagreement |

`KeptLines = 1` in `collector` excludes files truncated to nothing; `collector_emptied`
sets it to 0 and shows why. Deadlock is checked except where the system rightly
stops: an exhausted or revoked agent in the delivery and agent runs, tables that nobody writes
to any more in `hub_devices`, a site whose codes and tokens are used up in `site_login`.

Properties worth knowing by name:

* `AppliedInOrderOnce`, `RemovedOnlyIfApplied`, `FifoIsSequenceOrder`,
  `AnswerIsReceiptOfRequest`, `RefinesChannel` — delivery.
* `ReceiptPerAppliedBatch`, `AnswerNamesItsDevice` — the endpoint under any clients.
* `CommittedIsDelivered`, `GrowingMatchesFullParse`, `SinkErrorsNeverRedeliver`,
  `EveryEventDelivered` — collection.
* `NewestEventsKept`, `LossNeedsOutage`, `RefinesDelivery`, `OutboxDrains` — the agent.
* `LiveRowsMatchReport`, `CredentialsFollowBinding`, `MergeLosesNothing`,
  `AliasFollowsHistory`, `CapacityFollowsReadings`, `PanelNeverGoesBack` — the hub's
  tables about devices.
* `PasskeyLimit`, `CodeLogsInOnce`, `RotatedSessionIsDead`, `CounterNeverBack`,
  `LimiterLetsInAgain` — the login.
* `GatesAreNoOps`, `EarliestCopySurvives`, `ReplayChangesNothing`,
  `MutatedIffChanged`, `StrongestEvidenceWins`, `RowsOnlyGain` — the table.
* `ReloadReachesRequests`, `SingleFlight`, `FailuresNeverStick`, `PricesOnlyAdvance`,
  `EveryRequestAnswered`, `SignalNeverLost`, `EveryWriteShown` — the read side.

Every property of a passing run is violated by at least one mutant of a definition
that models code (listed in `PROJECT.json`).

## 5 Fairness

*Delivery.* `startUploadLoop` and `drainOutbox` retry for ever with a bounded back-off,
so posting and reading a refusal are weakly fair, and a handler runs to its end (weak
fairness of `HubStep`). A timeout or a failure can always forgo a particular request;
that the network and hub let one through infinitely often is strong fairness of
authenticating, applying and reading the answer, per uploader. This is an assumption
about the environment, not about the code. Revocation is the escape of both liveness
properties: a refused head stays at the head for ever, by design.

`agent_sources` uses the same fairness: nothing is asked of the sources.

*Collector.* `Run` and the hub's `runCollectors` start passes on a timer (weak
fairness of `StartPass`); a process that is killed again and again gets past each step
of each file eventually (strong fairness per file and step). Writing is not fair.

*Read side.* A computation ends with a result or an error and a nested call follows
(weak fairness); a stream handler is woken by its timer at the latest. Reloads,
writers, connections and hang-ups are not fair.

*Login.* Time passes (weak fairness of `Tick`) and nothing else is fair:
`LimiterLetsInAgain` must hold however the browsers keep trying.

`HubDevices` has safety properties only: nothing there has to happen.

## 6 Proofs

Everything below holds for every value of the constants that satisfies the named
`ASSUME`s, which TLC evaluates on the runs.

| Theorem | Statement |
|---|---|
| `TypeCorrect` (`DeliveryProofs`) | `Spec => []TypeOK`; the counter stays within its width |
| `InOrderOnce`, `NothingLost`, `FifoOrder`, `AnswersAreReceipts` | `AppliedInOrderOnce`, `RemovedOnlyIfApplied`, `FifoIsSequenceOrder`, `AnswerIsReceiptOfRequest` |
| `Refinement` | `Spec => RefinesChannel` |
| `DrainingApplies` | `Spec /\ OutboxDrains => EveryBatchApplied` |
| `CollapseKeepsFirsts`, `PartitionIsExact` | what the two loops of a push yield for every batch: the first observation of each id, once, in order; a cut of the batch into envelopes that fit |
| `AgentTypesInvariant`, `SourcesRefineDelivery` | what the sources hold; `AgentSpec => RefinesDelivery` |
| `NewestKept`, `OnlyOutagesLose` | `NewestEventsKept`; `OneIdentity => LossNeedsOutage` |
| `AgentDeliversOnce` | `RefinesChannel`, `AppliedInOrderOnce` and `RemovedOnlyIfApplied` of the agent with all its sources |
| `ReceiptsAreExact`, `AnswersNameTheirDevice` (`HubIngestProofs`) | `ReceiptPerAppliedBatch`, `AnswerNamesItsDevice` |
| `EverySkipIsANoOp`, `EarliestCopyStays`, `IngestIsIdempotent`, `ReportIsTrue`, `EvidenceSettles`, `RowsGain` (`EventStoreProofs`) | the six properties of `events` |
| `CollectorTypes`, `GrowingInvariant`, `GrowingMatches`, `CommittedReachesSink`, `LedgerInvariant`, `NeverRedelivers`, `CuttingInvariant` (`CollectorProofs`) | the inductive invariants, `GrowingMatchesFullParse`, `(Growing \/ Cutting) => CommittedIsDelivered`, `SinkErrorsNeverRedeliver` |
| `ReloadsReachRequests`, `OneComputationPerKey`, `FailuresAreNotCached`, `NoSignalIsLost`, `PricesAdvance` (`HubViewsProofs`) | the safety properties of `hub_views` |
| `LiveRowsAreTheNewest`, `AliasesLeadToTheEvents`, `CalibrationForgetsNothing`, `CredentialsStay`, `MergesAreAccounted`, `PanelMovesForward` (`HubDevicesProofs`) | the six properties of `hub_devices` |
| `SiteTypes`, `PasskeysAreLimited`, `CodesLogInOnce`, `RotationEndsSessions`, `CountersOnlyGrow` (`SiteAuthProofs`) | types and the safety properties of `site_login` |

Numbers are not taken by induction rules (the prover cannot instantiate their operator
parameter) but by least counterexample: `OrderLemmas` derives from the well-foundedness
of finite sets that a set of naturals has a least element and a finite set under a total
order a greatest one. Loops over data are recursive functions, so that the value after
`n` elements is `f[n]`; a loop is shown to exist, then to keep its invariant at the least
`n` where it might not.

*Delivery.* Assumed: sizes and limits are naturals, `MaxSequence` and `MaxChunks`
positive, `NoConn` is no connection. That a UUID is new is part of `Enqueue`. None of
the invariants is inductive alone. `DeliveryInv` adds: rows, ids and sequences mirror the
history (`EnqueuedOK`, `RowsOK`); rows leave at the head only (`Contiguous`); what has
left was applied (`RemovedApplied`); applied is a prefix of enqueued (`AppliedOK`);
receipts are those of the applied (`ReceiptsOK`). The key is `HandlersOK`: a request in
flight is an envelope at most one beyond what has been applied. It was the head when
posted, so everything before it had left the queue, hence been applied; that stays true
however late its handler runs. A handler that finds no receipt therefore holds exactly
the next envelope, and one that finds a receipt holds an applied one. The refinement
maps `Produce` to `Send`, `ApplyNew` to `Deliver`, everything else to stuttering. For the
endpoint alone, under arbitrary clients, the order is not guaranteed; what remains is
`HubInv`: types, exact receipts, answers that are receipts of the asker, and the fact
that a handler past idle holds a request.

*Agent.* `DeliveryProofs` holds its proofs too. Assumed (`AgentConstants`): the ring has
room for an event, a configuration says whether it has a proxy and until when the
status line captures, a pass over the logs is a sequence, and what a push is cut into is
among the `Payloads` and `MaxChunks` that `Delivery` allows. `CollapseKeepsFirsts` and
`PartitionIsExact` are the loops' invariants (`Firsts`, `Parts`) at their ends; the halving
is about runs at any place of the batch, because its right half does not start where the
batch does. With `AgentTypes` they give the refinement: an accepted push is one
`Produce`, any other step of a source leaves the upload path alone. That is also how
`TypeOK` of the outbox is known in the proofs that follow. `RingOK` states
`NewestEventsKept` by position: the ring is the last `Len(ring)` events emitted, and one
of the newest `RingCap` that is not in it has arrived. It survives a push that reports an
error after it was taken, because nothing is removed then, and an accepted push empties
the ring only because collapsing and partitioning lose nothing (`PushArrives`). `LossOK` adds
what makes `LossNeedsOutage` inductive: without an outage the ring is empty between two
calls of `emit`. A push that fails is an outage unless the envelope does not validate; after
collapsing, it validates if every item bears the enrolled id (`CollapsedValidates`), which
scans and readings do by construction and the proxy's events do if `OneIdentity`: the
configured name is the enrolled id, or the agent is v1 or has no proxy. Without that the
property is false, which is the finding of `proxy_v2_device`.

*Collector.* Assumed: `FileOrder` is a sequence, the chunk size is positive, worlds name
known faults. There are three invariants, because three different things make the
three properties true. Where files only grow, `GrowInv` holds under every fault of the
model, a lost state file included: a committed offset is the end of a line, what one
parse of the prefix finds has been accepted, the turn start is the last turn record of
the prefix (`CommittedOK`), and the unfinished scan starts where its kind of file
starts, ends at a line and has a ledger of accepted keys (`LedgerOK`). The step that
matters is `Commit`: the keys of a scan cover its events (`KeysCover`), the events of
prefix and piece are those of the longer prefix (`TwoPieces`), and the turn start
carried over is the one a parse from the start would find (`TurnCarried`; it also needs
that a turn record's stamp is not 0, since `Commit` takes 0 for "none"). Where only the
sink fails, `SinkOnlyInv` says where each delivered event is accounted for: on a
committed line or in a chunk that the ledger has or is about to have; stamps are unique
and chunks disjoint (`KeysDisjoint`), so an owed chunk holds nothing delivered. Where
files are cut, neither the offset nor the ledger can be trusted; `CutInv` says that the
lines before the offset have been accepted, or that the file is shorter and the next
pass sees it, or that a scan which ends below the offset is about to replace it. This
covers `Cutting`: a sink that fails, no file cut to nothing (`KeptLines > 0`). With
crashes or cuts to nothing as well, the property is false for the reason
`collector_emptied` shows.

The attempt to prove `CutInv` found the environment assumption in `Write` too weak: with
4 lines or more, a file cut below its offset while a scan of it was unfinished could
grow back over the offset before a pass had looked, and the 3 lines of the run hid it.
A truncated file must stay below both `Marks` until it is seen.

*Event table.* Assumed: observations and rows are well formed, an old database has no
keys, and no channel reports `bedrock` or `vertex` ("Nothing currently produces these
labels", `model/provider.go:41`; with such a report an empty label would outrank it and
`EvidenceSettles` would fail). The gated statements of one observation equal a closed
form, `Merged`, provided the early copy is one from which the row has only gained since
(`GatesSkipNothing`); a whole event equals `Stepped` (`ApplyIsStepped`), gated or not. A
table is right (`TableOK`) when a key has one owner, the earliest reported copy, when
reported rows carry their key, and rows without a key are never lost. `Progress` says
how a table may differ from an earlier one: a row is lost only by being reported, comes
only as the first report of its id, and otherwise gains. Two facts carry the theorems:
gaining is a partial order under which what has been absorbed stays absorbed, and
progress is one way (`ProgressIsOneWay`): a row that comes and goes within one batch
leaves an earlier copy with the key that it did not have before, so the table cannot
look as if nothing had happened. `StoreInv` is `TableOK` with the history of evidence.

*Read side.* `ReloadInv`: at most one reload is between building and clearing, and the
what it has built is at least as new as the live table, which is at least as new as the
promised one. `CallInv`: an entry in flight
belongs to a running call, a running call that the map does not have was detached by a
clear, and every body is at least as new as the promise was when its call began;
otherwise a computation that straddles a reload could be stored after it. `SignalsOK`: a
stream with an empty slot has read, or is about to read, what the last signal announced.

*Devices.* `RegistryInv` ties the rows of a device to the instant of its report;
`AliasesOK` says of each name that was merged away where the folded log leads;
`NoneForgotten` says of every reading worth learning from that it is learnt, under
observation, covered by the backfill or in `missed`; an action that takes a reading out of
one of the first three must put it in another. The theorem speaks of `Spec`, where every
reading arrives through `InsertQuotas`; of `SpecV2` it would be false (section 7). That a
merge loses exactly what its audit record counts is a statement about cardinalities of
finite sets.
`Aliases` is `AliasesAfter`, a recursive function of the log, and `missed` holds looks
(window and percentage) rather than rows, because a merge renames rows.

*Login.* `SavingOK` holds the mutex's purpose: between verifying and saving nobody else
changes the passkeys, so the count and the counter that were checked are those that are
overwritten. `CodesOK` and `TokensOK` follow codes and tokens from request to table.
`RotatedSessionIsDead` is claimed of logins whose rotation did not err, and of these it
must survive whatever runs beside them, for a token is drawn only if nobody knows it.

*Only model-checked:* liveness (fairness and `ENABLED` are outside the prover):
`OutboxDrains` (from which `EveryBatchApplied` is proved: what is no longer queued was
applied), `EveryEventDelivered`, `EveryRequestAnswered`,
`EveryWriteShown`, `LimiterLetsInAgain`. Every other property of a passing run is stated by
a theorem.

## 7 Where the code and what is said of it disagree

Each has a run that TLC ends with a counterexample.

* `collector_emptied`: a file seen empty keeps its stored offset, and lines written
  below it afterwards are never read, against "re-read; dedup absorbs repeats"
  (`scan.go:136`).
* `proxy_v2_device`: the proxy of a v2 agent stamps its events with the configured name,
  the envelope accepts only the enrolled id; every push is refused and the ring drops
  all but the newest, against "transient server outages lose nothing"
  (`proxy.go:62`), with no outage at all.
* `quota_v2_capacity`: `insertQuotasTx` stores readings without observing them, against
  "every arrival path ... maintains it, and none of them can forget to"
  (`capacity.go:117`); only the backfill of the next start learns from them.

Noted while reading, without a run of their own:

* `docs/API.md:104` promises 409 for a batch id posted again with another payload;
  `ApplyIngestV2` compares only the device and replays the receipt;
* `docs/deployment.md:273` promises no data change after a revocation; the handler checks
  before its transaction, so one request in between is applied;
* the re-read of a truncated file starts at 0 with the turn start of its old offset,
  which the comment at `state.go:116` calls wrong (`GrowingMatchesFullParse` therefore
  speaks of growing files only);
* `docs/API.md:271` promises a live event after every write following the snapshot; a
  write between snapshot and subscription waits for the timer;
* `windowIDMinutes` keeps minutes "for the same reason LatestQuotas uses it", which has
  since gone to hours because boundaries jitter over a minute: such a window deposits two
  samples (`HubDevices` has it, with resets 300 and 301);
* a heartbeat writes back the display name it read first, and a settings save writes back
  labels read before a merge: the rename is lost, the merged label returns;
* a process report of an agent whose clock runs ahead shuts out the hub-timed reports of
  its heartbeats until the hub's clock has caught up;
* the status-quota reader remembers a capture before the push: if the push fails, that
  reading is not sent again;
* a crash between noticing a truncation and `BeginScan` has the cause of
  `collector_emptied`: the stored offset is not reset;
* `model/provider.go:127` calls the provider merge order-independent; labels of equal
  rank keep the first reported (`store.go:734` is strict);
* v1 and local writers do not signal a batch that only merges (`EveryWriteShown` holds
  through the timer);
* ADR-0028 bounds staleness by the time to live; expiry counts from the end of the
  computation, so its duration comes on top;
* two process reports with one time stamp are united rather than replaced;
* "Rotate an existing browser session when authenticating again" (`http.go:134`): if
  reading or deleting the old session errs, the login succeeds and both sessions live
  (`RotateErrs`);
* nothing is said to produce the labels `bedrock` and `vertex` any more
  (`model/provider.go:41`), but the Codex parser passes on a `model_provider` the user
  typed (`parser/codex/parser.go:506`); a crash between the demotion of these labels and its
  flag (`store.go:148`) would demote such a row again. `EventStore` assumes the labels
  away (`Providers \cap Fingerprints = {}`).

## 8 What is not modelled

Sections 1 and 2 list what is planned. Left out on purpose: formats and field
extraction of the log parsers (the collector models what depends on where a parse
starts and ends; `duration_ms` at a piece's boundary is 0 on purpose, ADR-0006);
reports, prices and the capacity estimate as arithmetic; usage extraction in the proxy;
process recognition; derivation of the machine id; HTTP plumbing; the CLI, web and
desktop front ends; rsync and the tools themselves; cryptography.

Assumptions that a reader should know: a truncated log is seen shorter by a pass before
it has grown back over its old offset or the end of its unfinished scan (`Write`; sizes
are all the code compares, and lines before the offset would otherwise be lost); one
process per state file; readings of one series (source, limit id, scope and length)
at a time, since rows of different series meet in no statement but the panel's, which
ignores the limit id; database errors inside a transaction roll it back and are the same
as not running it, and outside end the handler (`Abort`, `Fail`) or are logged and ignored
(`RotateErrs`, `DropObservation`, `BackfillErrs`); `EventStore` takes a row as mutated if
it differs, the code if a statement reports an affected row; a computation of the cache
ends (a panic would leave its entry in flight); the hub's cache and streams die with its
process, so their crash is an initial state.
