------------------------------ MODULE RespCache ------------------------------
(***************************************************************************)
(* The hub's response cache (internal/server/respcache.go) and the hot     *)
(* reload of the price table that must empty it (pricingrefresh.go,        *)
(* settingsview.go).  One map from keys to entries under a mutex; a miss   *)
(* computes outside the mutex while later requests of the key wait for it; *)
(* computing the overview asks the cache itself for the all-time totals.   *)
(*                                                                         *)
(* A body is represented by the oldest price table that went into it.  The *)
(* time to live is not counted: an entry may expire at any moment.         *)
(***************************************************************************)
EXTENDS Integers

CONSTANTS
    Callers,     \* concurrent requests to the cached endpoints
    Keys,        \* their cache keys
    Inner,       \* per key: the key its computation asks for, or NoKey
    NoKey,
    Savers,      \* concurrent settings requests with new price overrides
    Refresher,   \* runPricingUpdates
    MaxSaves,    \* bound: settings saves
    MaxFetches   \* bound: new upstream catalogs

ASSUME RespCacheConstants ==
    /\ Inner \in [Keys -> Keys \cup {NoKey}]
    /\ NoKey \notin Keys /\ Refresher \notin Savers
    /\ MaxSaves \in Nat /\ MaxFetches \in Nat

VARIABLES
    overrides,   \* version of the overrides in app_settings
    catalog,     \* version of s.pricingCatalog
    prices,      \* s.prices: the versions the live table was built from
    promised,    \* history: the table of the last finished reload
    reload,      \* per settings request, and for the refresher: its reload
    cache,       \* respCache.m
    call         \* the calls of respCache.bytes in progress

cacheVars == <<overrides, catalog, prices, promised, reload, cache, call>>

Reloaders == Savers \cup {Refresher}
Calls == Callers \X {"handler", "nested"}

AtLeast(t, u) == t.catalog >= u.catalog /\ t.overrides >= u.overrides
Older(t, u) == IF AtLeast(t, u) THEN u ELSE t

FirstTable == [catalog |-> 0, overrides |-> 0]
Failed == [catalog |-> -1, overrides |-> -1]   \* the body of an error
NoBody == [catalog |-> MaxFetches, overrides |-> MaxSaves]

NoEntry == [state |-> "none"]
InFlight(p) == [state |-> "computing", by |-> p]
Ready(body) == [state |-> "ready", body |-> body]

IdleCall == [pc |-> "idle"]

CacheInit ==
    /\ overrides = 0
    /\ catalog = 0
    /\ prices = FirstTable
    /\ promised = FirstTable
    /\ reload = [r \in Reloaders |-> [pc |-> "idle", table |-> FirstTable]]
    /\ cache = [k \in Keys |-> NoEntry]
    /\ call = [p \in Calls |-> IdleCall]

-----------------------------------------------------------------------------
(* Reloading the price table.                                              *)

\* Building, swapping and clearing happen under pricingUpdateMu.
Locked == \E r \in Reloaders : reload[r].pc \in {"swap", "clear"}

Step(r, pc, table) == reload' = [reload EXCEPT ![r] = [pc |-> pc, table |-> table]]

\* handlePutSettings stores the overrides...
SaveOverrides(r) ==
    /\ reload[r].pc = "idle" /\ r # Refresher
    /\ overrides < MaxSaves
    /\ overrides' = overrides + 1
    /\ Step(r, "build", [catalog |-> 0, overrides |-> overrides + 1])
    /\ UNCHANGED <<catalog, prices, promised, cache, call>>

\* ... refreshPricing fetches a catalog, before it takes the lock...
FetchCatalog ==
    /\ reload[Refresher].pc = "idle"
    /\ catalog < MaxFetches
    /\ Step(Refresher, "build", [catalog |-> catalog + 1, overrides |-> 0])
    /\ UNCHANGED <<overrides, catalog, prices, promised, cache, call>>

\* Mutant: the table is built from what the request knows, outside the lock.
BuiltEarly(r) ==
    [catalog |-> reload[r].table.catalog,
     overrides |-> IF r = Refresher THEN prices.overrides ELSE reload[r].table.overrides]

\* priceTable: the catalog given, under the overrides that are stored now.
Built(r) ==
    [catalog |-> IF r = Refresher THEN reload[r].table.catalog ELSE catalog,
     overrides |-> overrides]

\* ... and both build the table.
Build(r) ==
    /\ reload[r].pc = "build" /\ ~Locked
    /\ Step(r, "swap", Built(r))
    /\ UNCHANGED <<overrides, catalog, prices, promised, cache, call>>

\* The stored overrides cannot be read, or the catalog cannot be saved: the
\* old table stays.
BuildFails(r) ==
    /\ reload[r].pc = "build" /\ ~Locked
    /\ Step(r, "idle", FirstTable)
    /\ UNCHANGED <<overrides, catalog, prices, promised, cache, call>>

\* setPrices.
Swap(r) ==
    /\ reload[r].pc = "swap"
    /\ catalog' = reload[r].table.catalog
    /\ prices' = reload[r].table
    /\ Step(r, "clear", reload[r].table)
    /\ UNCHANGED <<overrides, promised, cache, call>>

\* Mutant: computations in flight stay in the map.
ClearedReady == [k \in Keys |-> IF cache[k].state = "ready" THEN NoEntry ELSE cache[k]]

\* clear() starts a new map: computations in flight are no longer found.
Cleared == [k \in Keys |-> NoEntry]

Clear(r) ==
    /\ reload[r].pc = "clear"
    /\ cache' = Cleared
    /\ call' = [p \in Calls |-> IF call[p].pc = "idle" THEN IdleCall
                                ELSE [call[p] EXCEPT !.detached = TRUE]]
    /\ promised' = reload[r].table
    /\ Step(r, "notify", reload[r].table)
    /\ UNCHANGED <<overrides, catalog, prices>>

\* handlePutSettings fails after the reload (the device labels cannot be
\* stored, the answer cannot be read) and signals nothing.
SaveFailsLate(r) ==
    /\ reload[r].pc = "notify" /\ r # Refresher
    /\ Step(r, "idle", FirstTable)
    /\ UNCHANGED <<overrides, catalog, prices, promised, cache, call>>

-----------------------------------------------------------------------------
(* respCache.bytes.                                                        *)

\* A call as it leaves the mutex for the first time.  The fields after body
\* are history: the table promised when it began, whether a computation has
\* failed and whether the map was replaced since.
NewCall(pc, k, body, on) ==
    [pc |-> pc, key |-> k, body |-> body, on |-> on, nested |-> Inner[k] = NoKey,
     begun |-> promised, failure |-> FALSE, detached |-> FALSE]

Hit(p, k) ==
    /\ cache[k].state = "ready"
    /\ call' = [call EXCEPT ![p] = NewCall("returned", k, cache[k].body, p)]
    /\ UNCHANGED cache

Wait(p, k) ==
    /\ cache[k].state = "computing"
    /\ call' = [call EXCEPT ![p] = NewCall("waiting", k, NoBody, cache[k].by)]
    /\ UNCHANGED cache

Miss(p, k) ==
    /\ cache[k].state = "none"
    /\ call' = [call EXCEPT ![p] = NewCall("computing", k, NoBody, p)]
    /\ cache' = [cache EXCEPT ![k] = InFlight(p)]

Bytes(p, k) ==
    /\ call[p].pc = "idle"
    /\ Hit(p, k) \/ Wait(p, k) \/ Miss(p, k)
    /\ UNCHANGED <<overrides, catalog, prices, promised, reload>>

\* A request for an endpoint; the inner key is no endpoint.
Request(c, k) == (\A j \in Keys : Inner[j] # k) /\ Bytes(<<c, "handler">>, k)

\* computeOverview asks for the all-time totals...
Nest(c) ==
    /\ call[<<c, "handler">>].pc = "computing"
    /\ ~call[<<c, "handler">>].nested
    /\ Bytes(<<c, "nested">>, Inner[call[<<c, "handler">>].key])

\* ... and puts what it gets, an error included, into its own answer.
Absorb(c) ==
    /\ call[<<c, "nested">>].pc = "returned"
    /\ call' = [call EXCEPT ![<<c, "nested">>] = IdleCall,
                            ![<<c, "handler">>].body = call[<<c, "nested">>].body,
                            ![<<c, "handler">>].nested = TRUE]
    /\ UNCHANGED <<overrides, catalog, prices, promised, reload, cache>>

\* costFromUsage reads the live table for every row it prices: the first read
\* is the oldest.
ReadPrices(p) ==
    /\ call[p].pc = "computing" /\ call[p].nested
    /\ call' = [call EXCEPT ![p].pc = "computed", ![p].body = Older(@, prices)]
    /\ UNCHANGED <<overrides, catalog, prices, promised, reload, cache>>

\* Mutant: ready is closed only if the map still holds the entry.
WokenAttached(p, q) ==
    \/ q = p
    \/ /\ call[q].pc = "waiting" /\ call[q].on = p
       /\ cache[call[p].key] = InFlight(p)

\* Closing ready wakes everyone who waits for this entry.
Woken(p, q) == q = p \/ (call[q].pc = "waiting" /\ call[q].on = p)

\* Everyone who shares the computation of p gets its result.
Share(p, body) ==
    call' = [q \in Calls |->
        IF call[q].pc = "idle" THEN IdleCall
        ELSE LET seen == [call[q] EXCEPT !.failure = @ \/ body = Failed]
             IN  IF Woken(p, q) THEN [seen EXCEPT !.pc = "returned", !.body = body]
                 ELSE seen]

Succeed(p) ==
    /\ call[p].pc = "computed" /\ call[p].body # Failed
    /\ cache' = [cache EXCEPT
            ![call[p].key] = IF @ = InFlight(p) THEN Ready(call[p].body) ELSE @]
    /\ Share(p, call[p].body)
    /\ UNCHANGED <<overrides, catalog, prices, promised, reload>>

\* Mutant: whatever is stored under the key is deleted.
AfterFailureAny(p) == [cache EXCEPT ![call[p].key] = NoEntry]

\* Mutant: the failure is kept like a body.
AfterFailureKept(p) ==
    [cache EXCEPT ![call[p].key] = IF @ = InFlight(p) THEN Ready(Failed) ELSE @]

\* A failed entry is deleted, if the map still holds it.
AfterFailure(p) ==
    [cache EXCEPT ![call[p].key] = IF @ = InFlight(p) THEN NoEntry ELSE @]

\* A query fails, or the inner one has.
Fail(p) ==
    /\ call[p].pc = "computed"
    /\ cache' = AfterFailure(p)
    /\ Share(p, Failed)
    /\ UNCHANGED <<overrides, catalog, prices, promised, reload>>

\* The response is written.
Respond(c) ==
    /\ call[<<c, "handler">>].pc = "returned"
    /\ call' = [call EXCEPT ![<<c, "handler">>] = IdleCall]
    /\ UNCHANGED <<overrides, catalog, prices, promised, reload, cache>>

\* The time to live of an entry is over.
Expire(k) ==
    /\ cache[k].state = "ready"
    /\ cache' = [cache EXCEPT ![k] = NoEntry]
    /\ UNCHANGED <<overrides, catalog, prices, promised, reload, call>>

Compute(p) == ReadPrices(p) \/ Succeed(p) \/ Fail(p)

Poll(c) ==
    \/ \E k \in Keys : Request(c, k)
    \/ Nest(c)
    \/ Absorb(c)
    \/ \E level \in {"handler", "nested"} : Compute(<<c, level>>)
    \/ Respond(c)

-----------------------------------------------------------------------------
(* Properties.                                                             *)

\* "Later requests must compute from the new price table" (comment on clear):
\* no part of an answer, not even one shared with an older request or taken
\* from the longer-lived inner entry, was priced with a table older than the
\* one whose reload had finished when the request came.
ReloadReachesRequests ==
    \A p \in Calls :
        call[p].pc = "returned" /\ call[p].body # Failed
            => AtLeast(call[p].body, call[p].begun)

\* "Exactly one caller runs compute while the rest wait" (comment on bytes):
\* one computation per key of the current map, also when an older one, which
\* a reload has detached, ends badly beside it.
SingleFlight ==
    LET Running(p) == call[p].pc \in {"computing", "computed"} /\ ~call[p].detached
    IN  \A p, q \in Calls :
            Running(p) /\ Running(q) /\ call[p].key = call[q].key => p = q

\* "Failures are never cached, so the next request after one retries": an
\* error is only answered to requests that were there when it happened.
FailuresNeverStick ==
    \A p \in Calls :
        call[p].pc = "returned" /\ call[p].body = Failed => call[p].failure

\* A settings save that was applied stays applied: the live table is never
\* built from older overrides or an older catalog than the one before, however
\* saves and the refresher interleave (comment on priceTable).
PricesOnlyAdvance == [][AtLeast(prices', prices)]_prices

\* Every request is answered, also one that waits for a computation which a
\* reload has detached from the map.
EveryRequestAnswered ==
    \A p \in Calls : call[p].pc \in {"waiting", "computing"} ~> call[p].pc = "returned"
==============================================================================
