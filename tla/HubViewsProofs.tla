--------------------------- MODULE HubViewsProofs ---------------------------
(***************************************************************************)
(* The response cache, the reload of the price table and the live streams  *)
(* are correct for every set of callers, keys, savers, writers and streams.*)
(***************************************************************************)
EXTENDS HubViews, TLAPS

Table == [catalog : 0..MaxFetches, overrides : 0..MaxSaves]
Body == Table \cup {Failed}

Entry == {NoEntry} \cup {InFlight(p) : p \in Calls} \cup {Ready(b) : b \in Table}

ActiveCall == [pc : {"returned", "waiting", "computing", "computed"}, key : Keys,
               body : Body, on : Calls, nested : BOOLEAN, begun : Table,
               failure : BOOLEAN, detached : BOOLEAN]

ReloadState == [pc : {"idle", "build", "swap", "clear", "notify"}, table : Table]

ReloadTypeOK ==
    /\ overrides \in 0..MaxSaves
    /\ catalog \in 0..MaxFetches
    /\ prices \in Table
    /\ promised \in Table
    /\ reload \in [Reloaders -> ReloadState]

CallTypeOK ==
    /\ cache \in [Keys -> Entry]
    /\ call \in [Calls -> ActiveCall \cup {IdleCall}]

(***************************************************************************)
(* Reloading.  One reload at a time is between Build and Clear, and what   *)
(* it has built is at least as new as the live table; a catalog that the   *)
(* refresher has fetched is not older than the one in use.                 *)
(***************************************************************************)
InSwap(r) == reload[r].pc = "swap"
InClear(r) == reload[r].pc = "clear"

OneReload ==
    \A r, q \in Reloaders :
        (InSwap(r) \/ InClear(r)) /\ (InSwap(q) \/ InClear(q)) => r = q

TablesOK ==
    /\ prices.catalog = catalog
    /\ prices.overrides <= overrides
    /\ AtLeast(prices, promised)
    /\ reload[Refresher].pc = "build" => reload[Refresher].table.catalog >= catalog
    /\ \A r \in Reloaders :
        /\ InSwap(r) => AtLeast(reload[r].table, prices)
                            /\ reload[r].table.overrides <= overrides
        /\ InSwap(r) /\ r # Refresher => reload[r].table.catalog = catalog
        /\ InClear(r) => reload[r].table = prices

ReloadInv == ReloadTypeOK /\ OneReload /\ TablesOK

(***************************************************************************)
(* The cache.  An entry in flight belongs to a running call that began     *)
(* under the table promised now, a ready one is at least as new as that    *)
(* table; a running call that no reload has detached is in the map.        *)
(***************************************************************************)
Busy(p) == call[p].pc \in {"computing", "computed"}

InFlightOK ==
    \A k \in Keys, p \in Calls : cache[k] = InFlight(p) =>
        Busy(p) /\ call[p].key = k /\ call[p].begun = promised

ReadyOK ==
    \A k \in Keys, b \in Table : cache[k] = Ready(b) => AtLeast(b, promised)

RunningInMap ==
    \A p \in Calls : Busy(p) /\ ~call[p].detached => cache[call[p].key] = InFlight(p)

(***************************************************************************)
(* The calls.  Whoever waits, waits for a running call that began no       *)
(* earlier under the promise; a nested call belongs to a handler that is   *)
(* still computing and has asked for a key there is; a body is an error or *)
(* keeps the promise.                                                      *)
(***************************************************************************)
WaitersOK ==
    \A p \in Calls : call[p].pc = "waiting" =>
        Busy(call[p].on) /\ AtLeast(call[call[p].on].begun, call[p].begun)

InnerOK ==
    \A p \in Calls : call[p].pc # "idle" /\ ~call[p].nested =>
        Inner[call[p].key] \in Keys

NestedOK ==
    \A c \in Callers : call[<<c, "nested">>].pc # "idle" =>
        /\ call[<<c, "handler">>].pc = "computing"
        /\ ~call[<<c, "handler">>].nested
        /\ AtLeast(call[<<c, "nested">>].begun, call[<<c, "handler">>].begun)

BodiesOK ==
    \A p \in Calls : call[p].pc # "idle" =>
        /\ AtLeast(promised, call[p].begun)
        /\ call[p].body = Failed \/ AtLeast(call[p].body, call[p].begun)

CallInv ==
    /\ CallTypeOK
    /\ InFlightOK /\ ReadyOK /\ RunningInMap
    /\ WaitersOK /\ InnerOK /\ NestedOK /\ BodiesOK
    /\ FailuresNeverStick

(***************************************************************************)
(* The streams.  What could be read at the last signal can be read now; a  *)
(* handler that has read its payload, or has sent one, and whose slot is   *)
(* empty has read all of that.                                             *)
(***************************************************************************)
View == [data : Nat, prices : Table]

OpenStream == [pc : {"greeted", "waiting", "sleeping", "reading", "sending"},
               pending : BOOLEAN, shown : View, live : BOOLEAN]

StreamsOK ==
    /\ data \in Nat
    /\ signalled \in View
    /\ stream \in [Streams -> OpenStream \cup {Off}]

SignalsOK ==
    /\ data >= signalled.data
    /\ AtLeast(prices, signalled.prices)
    /\ \A s \in Streams :
        /\ stream[s].pc = "greeted" => ~stream[s].live
        /\ stream[s].pc = "sending" /\ ~stream[s].pending => Shows(s, signalled)
        /\ Resting(s) /\ stream[s].live => Shows(s, signalled)

ViewsInv ==
    /\ audience \in Audiences
    /\ ReloadInv
    /\ CallInv
    /\ StreamsOK /\ SignalsOK

-----------------------------------------------------------------------------
(* Reloading.                                                              *)

\* Every reload starts from the first table.
LEMMA ReloadInvInit == CacheInit => ReloadInv
  BY RespCacheConstants
     DEF CacheInit, ReloadInv, ReloadTypeOK, OneReload, TablesOK, InSwap, InClear,
         FirstTable, Table, ReloadState, AtLeast, Reloaders

\* A step of one reload keeps the others apart from it, and moves the live
\* table and the promised one forward only.
LEMMA ReloadStepKeepsInv ==
    ASSUME ReloadInv, NEW r \in Reloaders,
           \/ SaveOverrides(r) \/ (r = Refresher /\ FetchCatalog)
           \/ Build(r) \/ BuildFails(r) \/ Swap(r) \/ Clear(r)
           \/ SaveFailsLate(r) \/ Announce(r)
    PROVE  ReloadInv' /\ AtLeast(prices', prices) /\ AtLeast(promised', promised)
  <1> USE RespCacheConstants
      DEF ReloadInv, ReloadTypeOK, OneReload, TablesOK, InSwap, InClear, FirstTable,
          Table, ReloadState, AtLeast, Step
  <1>0. Refresher \in Reloaders
    BY DEF Reloaders
  <1>1. CASE SaveOverrides(r)
    BY <1>0, <1>1 DEF SaveOverrides
  <1>2. CASE r = Refresher /\ FetchCatalog
    BY <1>0, <1>2 DEF FetchCatalog
  <1>3. CASE Build(r)
    BY <1>0, <1>3 DEF Build, Built, Locked
  <1>4. CASE BuildFails(r)
    BY <1>0, <1>4 DEF BuildFails
  <1>5. CASE Swap(r)
    BY <1>0, <1>5 DEF Swap
  <1>6. CASE Clear(r)
    BY <1>0, <1>6 DEF Clear
  <1>7. CASE SaveFailsLate(r)
    BY <1>0, <1>7 DEF SaveFailsLate
  <1>8. CASE Announce(r)
    BY <1>0, <1>8 DEF Announce
  <1> QED BY <1>1, <1>2, <1>3, <1>4, <1>5, <1>6, <1>7, <1>8

-----------------------------------------------------------------------------
(* respCache.bytes.                                                        *)

\* The map is empty and nobody calls.
LEMMA CallInvInit == CacheInit => CallInv
  BY DEF CacheInit, CallInv, CallTypeOK, InFlightOK, ReadyOK, RunningInMap, WaitersOK,
         InnerOK, NestedOK, BodiesOK, FailuresNeverStick, Busy, Entry, IdleCall, NoEntry,
         InFlight, Ready, Calls

\* What the handlers do leaves the tables alone.
LEMMA PollKeepsTables ==
    ASSUME ReloadInv, UNCHANGED <<overrides, catalog, prices, promised, reload>>
    PROVE  ReloadInv'
  BY DEF ReloadInv, ReloadTypeOK, OneReload, TablesOK, InSwap, InClear, AtLeast

\* Entries of different kinds, or of different calls, are different.
LEMMA EntriesDiffer ==
    /\ \A p, q : InFlight(p) = InFlight(q) => p = q
    /\ \A b, d : Ready(b) = Ready(d) => b = d
    /\ \A p, b : InFlight(p) # Ready(b) /\ InFlight(p) # NoEntry /\ Ready(b) # NoEntry
  <1>1. \A p : InFlight(p).state = "computing" /\ InFlight(p).by = p
    BY DEF InFlight
  <1>2. \A b : Ready(b).state = "ready" /\ Ready(b).body = b
    BY DEF Ready
  <1>3. NoEntry.state = "none"
    BY DEF NoEntry
  <1> QED BY <1>1, <1>2, <1>3

\* A reload empties the map and detaches what is in flight.
LEMMA ClearKeepsCalls ==
    ASSUME ReloadInv, ReloadInv', CallInv, NEW r \in Reloaders, Clear(r),
           AtLeast(promised', promised)
    PROVE  CallInv'
  <1>1. /\ cache' = [k \in Keys |-> NoEntry]
        /\ call' = [p \in Calls |-> IF call[p].pc = "idle" THEN IdleCall
                                    ELSE [call[p] EXCEPT !.detached = TRUE]]
    BY DEF Clear, Cleared
  <1>2. CallTypeOK'
    BY <1>1 DEF CallInv, CallTypeOK, Entry, ActiveCall, IdleCall
  <1>3. ASSUME NEW p \in Calls
        PROVE  /\ call'[p].pc = call[p].pc
               /\ call[p].pc # "idle" =>
                    /\ call'[p].detached
                    /\ call'[p].on = call[p].on /\ call'[p].key = call[p].key
                    /\ call'[p].nested = call[p].nested
                    /\ call'[p].begun = call[p].begun
                    /\ call'[p].body = call[p].body
                    /\ call'[p].failure = call[p].failure
    BY <1>1 DEF CallInv, CallTypeOK, ActiveCall, IdleCall
  <1>4. InFlightOK' /\ ReadyOK' /\ RunningInMap'
    BY <1>1, <1>3, EntriesDiffer DEF InFlightOK, ReadyOK, RunningInMap, Busy
  <1>5. WaitersOK'
    BY <1>3 DEF CallInv, CallTypeOK, ActiveCall, IdleCall, WaitersOK, Busy, AtLeast
  <1>6. InnerOK' /\ NestedOK'
    BY <1>3 DEF CallInv, InnerOK, NestedOK, AtLeast, Calls
  <1>7. BodiesOK'
    BY <1>3 DEF CallInv, CallTypeOK, ActiveCall, IdleCall, BodiesOK, AtLeast, Body,
                Failed, Table, ReloadInv, ReloadTypeOK
  <1>8. FailuresNeverStick'
    BY <1>3 DEF CallInv, FailuresNeverStick
  <1> QED BY <1>2, <1>4, <1>5, <1>6, <1>7, <1>8 DEF CallInv

\* A call of bytes: a hit, a wait or a miss.  When the call is a nested one its
\* handler is computing.
LEMMA BytesKeepsCalls ==
    ASSUME ReloadInv, CallInv, NEW c \in Callers, NEW level \in {"handler", "nested"},
           NEW k \in Keys, Bytes(<<c, level>>, k),
           level = "nested" => call[<<c, "handler">>].pc = "computing"
                                    /\ ~call[<<c, "handler">>].nested
    PROVE  CallInv'
  <1> DEFINE p == <<c, level>>
  <1>1. /\ p \in Calls /\ promised' = promised /\ promised \in Table
        /\ NoBody \in Table /\ AtLeast(NoBody, promised) /\ AtLeast(promised, promised)
        /\ NoBody # Failed
    BY RespCacheConstants
       DEF Calls, Bytes, ReloadInv, ReloadTypeOK, Table, NoBody, AtLeast, Failed
  <1>2. call[p].pc = "idle"
    BY DEF Bytes
  <1>3. PICK new \in ActiveCall :
            /\ call' = [call EXCEPT ![p] = new]
            /\ new.begun = promised /\ new.key = k
            /\ ~new.nested => Inner[k] \in Keys
            /\ new.body # Failed /\ AtLeast(new.body, promised)
            /\ \/ new.pc = "returned" /\ UNCHANGED cache
               \/ /\ new.pc = "waiting" /\ cache[k] = InFlight(new.on)
                  /\ UNCHANGED cache
               \/ /\ new.pc = "computing" /\ ~new.detached /\ cache[k] = NoEntry
                  /\ cache' = [cache EXCEPT ![k] = InFlight(p)]
    <2>1. CASE Hit(p, k)
      <3> DEFINE new == NewCall("returned", k, cache[k].body, p)
      <3>1. PICK b \in Table : cache[k] = Ready(b)
        BY <2>1 DEF Hit, CallInv, CallTypeOK, Entry, NoEntry, InFlight
      <3>2. cache[k].body = b /\ AtLeast(b, promised) /\ b # Failed
        BY <3>1 DEF Ready, CallInv, ReadyOK, Table, Failed
      <3>3. new \in ActiveCall
        BY <1>1, <3>2 DEF NewCall, ActiveCall, Body
      <3> QED BY <2>1, <3>2, <3>3, RespCacheConstants DEF Hit, NewCall
    <2>2. CASE Wait(p, k)
      <3> DEFINE new == NewCall("waiting", k, NoBody, cache[k].by)
      <3>1. PICK q \in Calls : cache[k] = InFlight(q)
        BY <2>2 DEF Wait, CallInv, CallTypeOK, Entry, NoEntry, Ready
      <3>2. cache[k].by = q
        BY <3>1 DEF InFlight
      <3>3. new \in ActiveCall
        BY <1>1, <3>2 DEF NewCall, ActiveCall, Body
      <3> QED BY <1>1, <2>2, <3>1, <3>2, <3>3, RespCacheConstants DEF Wait, NewCall
    <2>3. CASE Miss(p, k)
      <3> DEFINE new == NewCall("computing", k, NoBody, p)
      <3>1. cache[k] = NoEntry
        BY <2>3 DEF Miss, CallInv, CallTypeOK, Entry, Ready, InFlight
      <3>2. new \in ActiveCall
        BY <1>1 DEF NewCall, ActiveCall, Body
      <3> QED BY <1>1, <2>3, <3>1, <3>2, RespCacheConstants DEF Miss, NewCall
    <2> QED BY <2>1, <2>2, <2>3 DEF Bytes
  <1>4. /\ call'[p] = new
        /\ \A q \in Calls : q # p => call'[q] = call[q]
    BY <1>1, <1>3 DEF CallInv, CallTypeOK
  <1>5. CallTypeOK'
    BY <1>1, <1>3 DEF CallInv, CallTypeOK, Entry
  <1>6. InFlightOK'
    BY <1>1, <1>2, <1>3, <1>4, EntriesDiffer DEF CallInv, CallTypeOK, InFlightOK, Busy
  <1>7. ReadyOK'
    BY <1>1, <1>3, EntriesDiffer DEF CallInv, CallTypeOK, ReadyOK
  <1>8. RunningInMap'
    <2>1. ASSUME NEW q \in Calls, q # p, Busy(q)', ~call'[q].detached
          PROVE  cache'[call'[q].key] = InFlight(q)
      <3>1. cache[call[q].key] = InFlight(q) /\ call[q] \in ActiveCall
        BY <1>4, <2>1 DEF CallInv, CallTypeOK, RunningInMap, Busy, IdleCall
      <3>2. call[q].key \in Keys
        BY <3>1 DEF ActiveCall
      <3> QED BY <1>3, <1>4, <2>1, <3>1, <3>2, EntriesDiffer DEF CallInv, CallTypeOK
    <2>2. Busy(p)' => cache'[call'[p].key] = InFlight(p)
      BY <1>3, <1>4 DEF Busy, CallInv, CallTypeOK
    <2> QED BY <2>1, <2>2 DEF RunningInMap
  <1>9. WaitersOK'
    <2>1. ASSUME NEW q \in Calls, q # p, call'[q].pc = "waiting"
          PROVE  (Busy(call[q].on) /\ AtLeast(call[call[q].on].begun, call[q].begun))'
      <3>1. /\ Busy(call[q].on) /\ AtLeast(call[call[q].on].begun, call[q].begun)
            /\ call[q] \in ActiveCall
        BY <1>4, <2>1 DEF CallInv, CallTypeOK, WaitersOK, IdleCall
      <3>2. call[q].on \in Calls /\ call[q].on # p
        BY <1>2, <3>1 DEF ActiveCall, Busy
      <3> QED BY <1>4, <2>1, <3>1, <3>2 DEF Busy, AtLeast
    <2>2. ASSUME call'[p].pc = "waiting"
          PROVE  (Busy(call[p].on) /\ AtLeast(call[call[p].on].begun, call[p].begun))'
      <3>1. new.on \in Calls /\ cache[k] = InFlight(new.on)
        BY <1>3, <1>4, <2>2 DEF ActiveCall
      <3>2. Busy(new.on) /\ call[new.on].begun = promised /\ new.on # p
        BY <1>2, <3>1 DEF CallInv, InFlightOK, Busy
      <3> QED BY <1>1, <1>3, <1>4, <3>1, <3>2 DEF Busy, AtLeast
    <2> QED BY <2>1, <2>2 DEF WaitersOK
  <1>10. NestedOK'
    <2>1. ASSUME NEW d \in Callers, call'[<<d, "nested">>].pc # "idle"
          PROVE  /\ call'[<<d, "handler">>].pc = "computing"
                 /\ ~call'[<<d, "handler">>].nested
                 /\ AtLeast(call'[<<d, "nested">>].begun, call'[<<d, "handler">>].begun)
      <3>1. <<d, "nested">> \in Calls /\ <<d, "handler">> \in Calls
        BY DEF Calls
      <3>2. CASE d # c
        BY <1>4, <2>1, <3>1, <3>2 DEF CallInv, NestedOK, AtLeast
      <3>3. CASE d = c /\ level = "handler"
        BY <1>2, <1>4, <2>1, <3>1, <3>3 DEF CallInv, NestedOK
      <3>4. CASE d = c /\ level = "nested"
        BY <1>3, <1>4, <3>1, <3>4 DEF CallInv, BodiesOK, AtLeast
      <3> QED BY <3>2, <3>3, <3>4
    <2> QED BY <2>1 DEF NestedOK
  <1>11. BodiesOK'
    BY <1>1, <1>3, <1>4 DEF CallInv, BodiesOK, AtLeast
  <1>12. FailuresNeverStick'
    BY <1>3, <1>4 DEF CallInv, FailuresNeverStick
  <1>13. InnerOK'
    BY <1>3, <1>4 DEF CallInv, InnerOK
  <1> QED BY <1>5, <1>6, <1>7, <1>8, <1>9, <1>10, <1>11, <1>12, <1>13 DEF CallInv

\* The order of tables is transitive.
LEMMA AtLeastTransitive ==
    ASSUME NEW t \in Table, NEW u \in Table, NEW v \in Table, AtLeast(t, u), AtLeast(u, v)
    PROVE  AtLeast(t, v)
  BY RespCacheConstants DEF Table, AtLeast

\* A call that is not idle has all its fields.
LEMMA ActiveCalls ==
    ASSUME CallInv, NEW p \in Calls, call[p].pc # "idle"
    PROVE  call[p] \in ActiveCall /\ call[p].key \in Keys /\ call[p].on \in Calls
               /\ call[p].begun \in Table /\ call[p].body \in Body
  BY DEF CallInv, CallTypeOK, ActiveCall, IdleCall

\* The handler takes over the nested answer, an error included.
LEMMA AbsorbKeepsCalls ==
    ASSUME CallInv, NEW c \in Callers, Absorb(c)
    PROVE  CallInv'
  <1> DEFINE h == <<c, "handler">>
             n == <<c, "nested">>
             absorbed == [call[h] EXCEPT !.body = call[n].body, !.nested = TRUE]
  <1>1. h \in Calls /\ n \in Calls /\ h # n
    BY DEF Calls
  <1>2. /\ call[n].pc = "returned" /\ call[h].pc = "computing"
        /\ AtLeast(call[n].begun, call[h].begun)
        /\ UNCHANGED <<cache, promised>>
    BY DEF Absorb, CallInv, NestedOK
  <1>3. call[n] \in ActiveCall /\ call[h] \in ActiveCall
    BY <1>1, <1>2, ActiveCalls
  <1>4. /\ absorbed \in ActiveCall
        /\ call'[n] = IdleCall
        /\ call'[h] = absorbed
        /\ \A q \in Calls : q # n /\ q # h => call'[q] = call[q]
        /\ call' \in [Calls -> ActiveCall \cup {IdleCall}]
    BY <1>1, <1>3 DEF Absorb, CallInv, CallTypeOK, ActiveCall
  <1>5. PICK new \in ActiveCall :
            /\ call'[h] = new
            /\ new.pc = "computing" /\ new.key = call[h].key /\ new.on = call[h].on
            /\ new.begun = call[h].begun /\ new.detached = call[h].detached
            /\ new.body = call[n].body /\ new.nested
    BY <1>2, <1>3, <1>4 DEF ActiveCall
  <1>a. /\ call'[n] = IdleCall /\ IdleCall.pc = "idle"
        /\ \A q \in Calls : q # n /\ q # h => call'[q] = call[q]
        /\ call' \in [Calls -> ActiveCall \cup {IdleCall}]
    BY <1>4 DEF IdleCall
  <1> HIDE DEF absorbed
  <1>6. CallTypeOK'
    BY <1>2, <1>a DEF CallInv, CallTypeOK
  <1>7. InFlightOK'
    BY <1>2, <1>a, <1>5 DEF CallInv, InFlightOK, Busy
  <1>8. ReadyOK'
    BY <1>2 DEF CallInv, ReadyOK
  <1>9. RunningInMap'
    BY <1>1, <1>2, <1>a, <1>5 DEF CallInv, RunningInMap, Busy
  <1>10. WaitersOK'
    <2>1. ASSUME NEW q \in Calls, call'[q].pc = "waiting"
          PROVE  (Busy(call[q].on) /\ AtLeast(call[call[q].on].begun, call[q].begun))'
      <3>1. q # n /\ q # h /\ call'[q] = call[q]
        BY <1>a, <1>5, <2>1
      <3>2. Busy(call[q].on) /\ AtLeast(call[call[q].on].begun, call[q].begun)
        BY <2>1, <3>1 DEF CallInv, WaitersOK
      <3>3. call[q].on \in Calls /\ call[q].on # n
        BY <1>2, <2>1, <3>1, <3>2, ActiveCalls DEF Busy
      <3> QED BY <1>2, <1>a, <1>5, <3>1, <3>2, <3>3 DEF Busy, AtLeast
    <2> QED BY <2>1 DEF WaitersOK
  <1>11. NestedOK'
    <2>1. ASSUME NEW d \in Callers, call'[<<d, "nested">>].pc # "idle"
          PROVE  (/\ call[<<d, "handler">>].pc = "computing"
                  /\ ~call[<<d, "handler">>].nested
                  /\ AtLeast(call[<<d, "nested">>].begun, call[<<d, "handler">>].begun))'
      <3>1. <<d, "nested">> \in Calls /\ <<d, "handler">> \in Calls /\ d # c
        BY <1>a, <1>5, <2>1 DEF Calls
      <3> QED BY <1>a, <2>1, <3>1 DEF CallInv, NestedOK, AtLeast
    <2> QED BY <2>1 DEF NestedOK
  <1>12. BodiesOK'
    <2>1. AtLeast(promised, call[h].begun)
      BY <1>1, <1>2 DEF CallInv, BodiesOK
    <2>2. call[n].body = Failed \/ AtLeast(call[n].body, call[h].begun)
      <3>1. call[n].body = Failed \/ AtLeast(call[n].body, call[n].begun)
        BY <1>1, <1>2 DEF CallInv, BodiesOK
      <3> QED BY <1>1, <1>2, <3>1, ActiveCalls, AtLeastTransitive DEF Body
    <2> QED BY <1>2, <1>a, <1>5, <2>1, <2>2 DEF CallInv, BodiesOK, AtLeast
  <1>13. FailuresNeverStick'
    BY <1>a, <1>5 DEF CallInv, FailuresNeverStick
  <1>14. InnerOK'
    BY <1>a, <1>5 DEF CallInv, InnerOK
  <1> QED BY <1>6, <1>7, <1>8, <1>9, <1>10, <1>11, <1>12, <1>13, <1>14 DEF CallInv

\* Reading the live table makes the body no older than the promise.
LEMMA ReadPricesKeepsCalls ==
    ASSUME ReloadInv, CallInv, NEW c \in Callers, NEW level \in {"handler", "nested"},
           ReadPrices(<<c, level>>)
    PROVE  CallInv'
  <1> DEFINE p == <<c, level>>
             priced == [call[p] EXCEPT !.pc = "computed", !.body = Older(@, prices)]
  <1>1. p \in Calls /\ UNCHANGED <<cache, promised>> /\ call[p].pc = "computing"
    BY DEF Calls, ReadPrices
  <1>2. call[p] \in ActiveCall
    BY <1>1, ActiveCalls
  <1>3. /\ prices \in Table /\ promised \in Table /\ call[p].begun \in Table
        /\ call[p].body \in Body /\ Older(call[p].body, prices) \in Body
    BY <1>2 DEF ReloadInv, ReloadTypeOK, ActiveCall, Older, Body
  <1>a. /\ priced \in ActiveCall
        /\ call'[p] = priced
        /\ \A q \in Calls : q # p => call'[q] = call[q]
        /\ call' \in [Calls -> ActiveCall \cup {IdleCall}]
    BY <1>1, <1>2, <1>3 DEF ReadPrices, CallInv, CallTypeOK, ActiveCall
  <1>4. /\ \A q \in Calls : q # p => call'[q] = call[q]
        /\ call' \in [Calls -> ActiveCall \cup {IdleCall}]
    BY <1>a
  <1>5. PICK new \in ActiveCall :
            /\ call'[p] = new
            /\ new.pc = "computed" /\ new.key = call[p].key /\ new.on = call[p].on
            /\ new.begun = call[p].begun /\ new.detached = call[p].detached
            /\ new.body = Older(call[p].body, prices) /\ new.nested
    BY <1>2, <1>a DEF ActiveCall, ReadPrices
  <1> HIDE DEF priced
  <1>6. CallTypeOK'
    BY <1>1, <1>4 DEF CallInv, CallTypeOK
  <1>7. InFlightOK'
    BY <1>1, <1>4, <1>5 DEF CallInv, InFlightOK, Busy
  <1>8. ReadyOK'
    BY <1>1 DEF CallInv, ReadyOK
  <1>9. RunningInMap'
    BY <1>1, <1>4, <1>5 DEF CallInv, RunningInMap, Busy
  <1>10. WaitersOK'
    <2>1. ASSUME NEW q \in Calls, call'[q].pc = "waiting"
          PROVE  (Busy(call[q].on) /\ AtLeast(call[call[q].on].begun, call[q].begun))'
      <3>1. q # p /\ call'[q] = call[q]
        BY <1>4, <1>5, <2>1
      <3>2. Busy(call[q].on) /\ AtLeast(call[call[q].on].begun, call[q].begun)
        BY <2>1, <3>1 DEF CallInv, WaitersOK
      <3>3. call[q].on \in Calls
        BY <2>1, <3>1, ActiveCalls
      <3> QED BY <1>4, <1>5, <3>1, <3>2, <3>3 DEF Busy, AtLeast
    <2> QED BY <2>1 DEF WaitersOK
  <1>11. NestedOK'
    <2>1. ASSUME NEW d \in Callers, call'[<<d, "nested">>].pc # "idle"
          PROVE  (/\ call[<<d, "handler">>].pc = "computing"
                  /\ ~call[<<d, "handler">>].nested
                  /\ AtLeast(call[<<d, "nested">>].begun, call[<<d, "handler">>].begun))'
      <3>1. <<d, "nested">> \in Calls /\ <<d, "handler">> \in Calls
        BY DEF Calls
      <3>2. CASE d # c
        BY <1>4, <2>1, <3>1, <3>2 DEF CallInv, NestedOK, AtLeast
      <3>3. CASE d = c /\ level = "handler"
        BY <1>4, <2>1, <3>1, <3>3 DEF ReadPrices, CallInv, NestedOK
      <3>4. CASE d = c /\ level = "nested"
        BY <1>1, <1>4, <1>5, <3>1, <3>4 DEF CallInv, NestedOK, AtLeast
      <3> QED BY <3>2, <3>3, <3>4
    <2> QED BY <2>1 DEF NestedOK
  <1>12. BodiesOK'
    <2>1. /\ AtLeast(promised, call[p].begun) /\ AtLeast(prices, promised)
          /\ call[p].body = Failed \/ AtLeast(call[p].body, call[p].begun)
      BY <1>1 DEF CallInv, BodiesOK, ReloadInv, TablesOK
    <2>2. AtLeast(prices, call[p].begun)
      BY <1>3, <2>1, AtLeastTransitive
    <2>3. new.body = Failed \/ AtLeast(new.body, new.begun)
      BY <1>5, <2>1, <2>2 DEF Older
    <2> QED BY <1>1, <1>4, <1>5, <2>1, <2>3 DEF CallInv, BodiesOK, AtLeast
  <1>13. FailuresNeverStick'
    BY <1>4, <1>5 DEF CallInv, FailuresNeverStick
  <1>14. InnerOK'
    BY <1>4, <1>5 DEF CallInv, InnerOK
  <1> QED BY <1>6, <1>7, <1>8, <1>9, <1>10, <1>11, <1>12, <1>13, <1>14 DEF CallInv

\* The end of a computation: its entry, if the map still has it, gives way to
\* nothing or to a body that keeps the promise, and everyone who waited gets
\* the result.
LEMMA ShareKeepsCalls ==
    ASSUME CallInv, NEW p \in Calls, call[p].pc = "computed",
           NEW body \in Body, body = Failed \/ AtLeast(body, call[p].begun),
           Share(p, body), promised' = promised,
           NEW e \in Entry, e = NoEntry \/ (e = Ready(body) /\ body # Failed),
           cache' = [cache EXCEPT ![call[p].key] = IF @ = InFlight(p) THEN e ELSE @]
    PROVE  CallInv'
  <1>1. call[p] \in ActiveCall /\ call[p].key \in Keys /\ call[p].begun \in Table
    BY ActiveCalls
  <1>2. ASSUME NEW q \in Calls
        PROVE  /\ call[q].pc = "idle" => call'[q] = IdleCall
               /\ call[q].pc # "idle" =>
                    /\ call'[q] \in ActiveCall
                    /\ call'[q].key = call[q].key /\ call'[q].on = call[q].on
                    /\ call'[q].begun = call[q].begun
                    /\ call'[q].detached = call[q].detached
                    /\ call'[q].nested = call[q].nested
                    /\ call[q].failure \/ body = Failed => call'[q].failure
                    /\ Woken(p, q) => call'[q].pc = "returned" /\ call'[q].body = body
                    /\ ~Woken(p, q) => /\ call'[q].pc = call[q].pc
                                       /\ call'[q].body = call[q].body
    <2> DEFINE seen == [call[q] EXCEPT !.failure = @ \/ body = Failed]
    <2>1. call'[q] = IF call[q].pc = "idle" THEN IdleCall
                     ELSE IF Woken(p, q)
                          THEN [seen EXCEPT !.pc = "returned", !.body = body]
                          ELSE seen
      BY DEF Share
    <2>2. CASE call[q].pc = "idle"
      BY <2>1, <2>2
    <2>3. CASE call[q].pc # "idle"
      <3>1. call[q] \in ActiveCall
        BY <2>3, ActiveCalls
      <3>2. (call[q].failure \/ body = Failed) \in BOOLEAN
        OBVIOUS
      <3>3. /\ seen \in ActiveCall /\ seen.key = call[q].key /\ seen.on = call[q].on
            /\ seen.begun = call[q].begun /\ seen.detached = call[q].detached
            /\ seen.nested = call[q].nested
            /\ seen.pc = call[q].pc /\ seen.body = call[q].body
            /\ seen.failure = (call[q].failure \/ body = Failed)
        BY <3>1, <3>2 DEF ActiveCall
      <3> HIDE DEF seen
      <3> QED BY <2>1, <2>3, <3>3 DEF ActiveCall
    <2> QED BY <2>2, <2>3
  <1>3. Woken(p, p) /\ IdleCall.pc = "idle"
    BY DEF Woken, IdleCall
  <1>4. ASSUME NEW q \in Calls, q # p, Busy(q)
        PROVE  ~Woken(p, q) /\ Busy(q)' /\ call'[q].pc = call[q].pc
    BY <1>2, <1>4 DEF Woken, Busy
  <1>5. ASSUME NEW q \in Calls, Busy(q)' PROVE Busy(q) /\ q # p
    BY <1>2, <1>3, <1>5 DEF Busy
  <1>6. ASSUME NEW k \in Keys
        PROVE  \/ cache'[k] = cache[k]
               \/ k = call[p].key /\ cache[k] = InFlight(p) /\ cache'[k] = e
    BY <1>1 DEF CallInv, CallTypeOK
  <1>7. CallTypeOK'
    <2>1. call' \in [Calls -> ActiveCall \cup {IdleCall}]
      BY <1>2 DEF Share
    <2>2. cache' \in [Keys -> Entry]
      BY <1>1 DEF CallInv, CallTypeOK
    <2> QED BY <2>1, <2>2 DEF CallTypeOK
  <1>8. InFlightOK'
    <2>1. ASSUME NEW k \in Keys, NEW q \in Calls, cache'[k] = InFlight(q)
          PROVE  (Busy(q) /\ call[q].key = k /\ call[q].begun = promised)'
      <3>1. cache[k] = InFlight(q)
        BY <1>6, <2>1, EntriesDiffer
      <3>2. Busy(q) /\ call[q].key = k /\ call[q].begun = promised
        BY <3>1 DEF CallInv, InFlightOK
      <3>3. q # p
        <4>1. SUFFICES ASSUME q = p PROVE FALSE
          OBVIOUS
        <4>2. cache'[k] = e
          BY <3>1, <3>2, <4>1 DEF CallInv, CallTypeOK
        <4> QED BY <2>1, <4>2, EntriesDiffer
      <3> QED BY <1>2, <1>4, <3>2, <3>3 DEF Busy
    <2> QED BY <2>1 DEF InFlightOK
  <1>9. ReadyOK'
    <2>1. ASSUME NEW k \in Keys, NEW b \in Table, cache'[k] = Ready(b)
          PROVE  AtLeast(b, promised)
      <3>1. CASE cache'[k] = cache[k]
        BY <2>1, <3>1 DEF CallInv, ReadyOK
      <3>2. CASE k = call[p].key /\ cache[k] = InFlight(p) /\ cache'[k] = e
        <4>1. b = body /\ body # Failed
          BY <2>1, <3>2, EntriesDiffer
        <4>2. call[p].begun = promised
          BY <3>2 DEF CallInv, InFlightOK
        <4> QED BY <4>1, <4>2
      <3> QED BY <1>6, <3>1, <3>2
    <2> QED BY <2>1 DEF ReadyOK, AtLeast
  <1>10. RunningInMap'
    <2>1. ASSUME NEW q \in Calls, Busy(q)', ~call'[q].detached
          PROVE  cache'[call'[q].key] = InFlight(q)
      <3>1. Busy(q) /\ q # p
        BY <1>5, <2>1
      <3>2. call[q].pc # "idle" /\ call[q].key \in Keys
        BY <3>1, ActiveCalls DEF Busy
      <3>3. cache[call[q].key] = InFlight(q) /\ call'[q].key = call[q].key
        BY <1>2, <2>1, <3>1, <3>2 DEF CallInv, RunningInMap
      <3> QED BY <1>6, <3>1, <3>2, <3>3, EntriesDiffer
    <2> QED BY <2>1 DEF RunningInMap
  <1>11. WaitersOK'
    <2>1. ASSUME NEW q \in Calls, call'[q].pc = "waiting"
          PROVE  (Busy(call[q].on) /\ AtLeast(call[call[q].on].begun, call[q].begun))'
      <3>1. ~Woken(p, q) /\ call[q].pc = "waiting" /\ call'[q].on = call[q].on
                /\ call'[q].begun = call[q].begun
        BY <1>2, <1>3, <2>1
      <3>2. Busy(call[q].on) /\ AtLeast(call[call[q].on].begun, call[q].begun)
        BY <3>1 DEF CallInv, WaitersOK
      <3>3. call[q].on \in Calls /\ call[q].on # p
        BY <3>1, ActiveCalls DEF Woken
      <3>4. Busy(call[q].on)' /\ call'[call[q].on].begun = call[call[q].on].begun
        BY <1>2, <1>4, <3>1, <3>2, <3>3 DEF Busy
      <3> QED BY <3>1, <3>2, <3>4 DEF Busy, AtLeast
    <2> QED BY <2>1 DEF WaitersOK
  <1>12. NestedOK'
    <2>1. ASSUME NEW d \in Callers, call'[<<d, "nested">>].pc # "idle"
          PROVE  (/\ call[<<d, "handler">>].pc = "computing"
                  /\ ~call[<<d, "handler">>].nested
                  /\ AtLeast(call[<<d, "nested">>].begun, call[<<d, "handler">>].begun))'
      <3>1. <<d, "nested">> \in Calls /\ <<d, "handler">> \in Calls
        BY DEF Calls
      <3>2. call[<<d, "nested">>].pc # "idle"
        BY <1>2, <1>3, <2>1, <3>1
      <3>3. /\ call[<<d, "handler">>].pc = "computing"
            /\ ~call[<<d, "handler">>].nested
            /\ AtLeast(call[<<d, "nested">>].begun, call[<<d, "handler">>].begun)
        BY <3>2 DEF CallInv, NestedOK
      <3> QED BY <1>2, <1>4, <3>1, <3>2, <3>3 DEF Busy, AtLeast
    <2> QED BY <2>1 DEF NestedOK
  <1>13. BodiesOK'
    <2>1. ASSUME NEW q \in Calls, call'[q].pc # "idle"
          PROVE  (/\ AtLeast(promised, call[q].begun)
                  /\ call[q].body = Failed \/ AtLeast(call[q].body, call[q].begun))'
      <3>1. call[q].pc # "idle" /\ call'[q].begun = call[q].begun
        BY <1>2, <1>3, <2>1
      <3>2. /\ AtLeast(promised, call[q].begun)
            /\ call[q].body = Failed \/ AtLeast(call[q].body, call[q].begun)
        BY <3>1 DEF CallInv, BodiesOK
      <3>3. CASE ~Woken(p, q)
        BY <1>2, <3>1, <3>2, <3>3 DEF AtLeast
      <3>4. CASE Woken(p, q)
        <4>1. AtLeast(call[p].begun, call[q].begun)
          <5>1. CASE q = p
            BY <1>1, <5>1, RespCacheConstants DEF AtLeast, Table
          <5>2. CASE q # p
            BY <3>4, <5>2 DEF Woken, CallInv, WaitersOK
          <5> QED BY <5>1, <5>2
        <4>2. body = Failed \/ AtLeast(body, call[q].begun)
          BY <1>1, <3>1, <4>1, ActiveCalls, AtLeastTransitive DEF Body
        <4> QED BY <1>2, <3>1, <3>2, <3>4, <4>2 DEF AtLeast
      <3> QED BY <3>3, <3>4
    <2> QED BY <2>1 DEF BodiesOK
  <1>14. FailuresNeverStick'
    <2>1. ASSUME NEW q \in Calls, call'[q].pc = "returned", call'[q].body = Failed
          PROVE  call'[q].failure
      <3>1. call[q].pc # "idle"
        BY <1>2, <1>3, <2>1
      <3>2. CASE Woken(p, q)
        BY <1>2, <2>1, <3>1, <3>2
      <3>3. CASE ~Woken(p, q)
        BY <1>2, <2>1, <3>1, <3>3 DEF CallInv, FailuresNeverStick
      <3> QED BY <3>2, <3>3
    <2> QED BY <2>1 DEF FailuresNeverStick
  <1>15. InnerOK'
    BY <1>2, <1>3 DEF CallInv, InnerOK
  <1> QED BY <1>7, <1>8, <1>9, <1>10, <1>11, <1>12, <1>13, <1>14, <1>15 DEF CallInv

\* A computation ends well or badly.
LEMMA EndKeepsCalls ==
    ASSUME CallInv, NEW p \in Calls, Succeed(p) \/ Fail(p)
    PROVE  CallInv'
  <1>1. promised' = promised /\ call[p].pc = "computed"
    BY DEF Succeed, Fail
  <1>2. /\ call[p] \in ActiveCall /\ call[p].body \in Body
        /\ call[p].body = Failed \/ AtLeast(call[p].body, call[p].begun)
    BY <1>1, ActiveCalls DEF CallInv, BodiesOK
  <1>3. CASE Succeed(p)
    <2>1. call[p].body \in Table /\ call[p].body # Failed
      BY <1>2, <1>3 DEF Succeed, Body
    <2>2. Ready(call[p].body) \in Entry
      BY <2>1 DEF Entry
    <2> QED BY <1>1, <1>2, <1>3, <2>1, <2>2, ShareKeepsCalls DEF Succeed
  <1>4. CASE Fail(p)
    <2>1. Failed \in Body /\ NoEntry \in Entry
      BY DEF Body, Entry
    <2> QED BY <1>1, <1>4, <2>1, ShareKeepsCalls DEF Fail, AfterFailure
  <1> QED BY <1>3, <1>4

\* The answer is written and the call is over.
LEMMA RespondKeepsCalls ==
    ASSUME CallInv, NEW c \in Callers, Respond(c)
    PROVE  CallInv'
  <1> DEFINE h == <<c, "handler">>
  <1>1. h \in Calls /\ UNCHANGED <<cache, promised>> /\ call[h].pc = "returned"
    BY DEF Calls, Respond
  <1>2. /\ call'[h] = IdleCall /\ IdleCall.pc = "idle"
        /\ \A q \in Calls : q # h => call'[q] = call[q]
        /\ call' \in [Calls -> ActiveCall \cup {IdleCall}]
    BY <1>1 DEF Respond, CallInv, CallTypeOK, IdleCall
  <1>3. CallTypeOK' /\ ReadyOK'
    BY <1>1, <1>2 DEF CallInv, CallTypeOK, ReadyOK
  <1>4. InFlightOK'
    BY <1>1, <1>2 DEF CallInv, InFlightOK, Busy
  <1>5. RunningInMap'
    BY <1>1, <1>2 DEF CallInv, RunningInMap, Busy
  <1>6. WaitersOK'
    <2>1. ASSUME NEW q \in Calls, call'[q].pc = "waiting"
          PROVE  (Busy(call[q].on) /\ AtLeast(call[call[q].on].begun, call[q].begun))'
      <3>1. q # h /\ call'[q] = call[q]
        BY <1>2, <2>1
      <3>2. Busy(call[q].on) /\ AtLeast(call[call[q].on].begun, call[q].begun)
        BY <2>1, <3>1 DEF CallInv, WaitersOK
      <3>3. call[q].on \in Calls /\ call[q].on # h
        BY <1>1, <2>1, <3>1, <3>2, ActiveCalls DEF Busy
      <3> QED BY <1>2, <3>1, <3>2, <3>3 DEF Busy, AtLeast
    <2> QED BY <2>1 DEF WaitersOK
  <1>7. NestedOK'
    <2>1. ASSUME NEW d \in Callers, call'[<<d, "nested">>].pc # "idle"
          PROVE  (/\ call[<<d, "handler">>].pc = "computing"
                  /\ ~call[<<d, "handler">>].nested
                  /\ AtLeast(call[<<d, "nested">>].begun, call[<<d, "handler">>].begun))'
      <3>1. <<d, "nested">> \in Calls /\ <<d, "handler">> \in Calls
                /\ <<d, "nested">> # h
        BY DEF Calls
      <3>2. /\ call[<<d, "handler">>].pc = "computing"
            /\ ~call[<<d, "handler">>].nested
            /\ AtLeast(call[<<d, "nested">>].begun, call[<<d, "handler">>].begun)
        BY <1>2, <2>1, <3>1 DEF CallInv, NestedOK
      <3> QED BY <1>1, <1>2, <3>1, <3>2 DEF AtLeast
    <2> QED BY <2>1 DEF NestedOK
  <1>8. BodiesOK'
    BY <1>1, <1>2 DEF CallInv, BodiesOK, AtLeast
  <1>9. FailuresNeverStick' /\ InnerOK'
    BY <1>2 DEF CallInv, FailuresNeverStick, InnerOK
  <1> QED BY <1>3, <1>4, <1>5, <1>6, <1>7, <1>8, <1>9 DEF CallInv

\* A ready entry expires.
LEMMA ExpireKeepsCalls ==
    ASSUME CallInv, NEW k \in Keys, Expire(k)
    PROVE  CallInv'
  <1>1. /\ cache[k].state = "ready" /\ cache' = [cache EXCEPT ![k] = NoEntry]
        /\ UNCHANGED <<call, promised>>
    BY DEF Expire
  <1>2. \A p : cache[k] # InFlight(p)
    BY <1>1 DEF InFlight
  <1>3. CallTypeOK'
    BY <1>1 DEF CallInv, CallTypeOK, Entry
  <1>4. InFlightOK' /\ ReadyOK'
    BY <1>1, EntriesDiffer DEF CallInv, CallTypeOK, InFlightOK, ReadyOK, Busy, AtLeast
  <1>5. RunningInMap'
    BY <1>1, <1>2, ActiveCalls DEF CallInv, CallTypeOK, RunningInMap, Busy
  <1>6. WaitersOK' /\ InnerOK' /\ NestedOK' /\ BodiesOK' /\ FailuresNeverStick'
    BY <1>1 DEF CallInv, WaitersOK, InnerOK, NestedOK, BodiesOK, FailuresNeverStick,
                Busy, AtLeast
  <1> QED BY <1>3, <1>4, <1>5, <1>6 DEF CallInv

\* Every step of a request keeps the invariant of the calls.
LEMMA PollKeepsCalls ==
    ASSUME ReloadInv, CallInv, NEW c \in Callers, Poll(c)
    PROVE  CallInv'
  <1>1. ASSUME NEW k \in Keys, Request(c, k) PROVE CallInv'
    BY <1>1, BytesKeepsCalls DEF Request
  <1>2. CASE Nest(c)
    <2> DEFINE h == <<c, "handler">>
    <2>1. h \in Calls /\ call[h].pc = "computing" /\ ~call[h].nested
      BY <1>2 DEF Nest, Calls
    <2>2. Inner[call[h].key] \in Keys
      BY <2>1 DEF CallInv, InnerOK
    <2> QED BY <1>2, <2>1, <2>2, BytesKeepsCalls DEF Nest
  <1>3. CASE Absorb(c)
    BY <1>3, AbsorbKeepsCalls
  <1>4. ASSUME NEW level \in {"handler", "nested"}, Compute(<<c, level>>) PROVE CallInv'
    <2>1. <<c, level>> \in Calls
      BY DEF Calls
    <2> QED BY <1>4, <2>1, ReadPricesKeepsCalls, EndKeepsCalls DEF Compute
  <1>5. CASE Respond(c)
    BY <1>5, RespondKeepsCalls
  <1> QED BY <1>1, <1>2, <1>3, <1>4, <1>5 DEF Poll

\* Reloads other than Clear, and what the streams do, leave the calls alone.
LEMMA OthersKeepCalls ==
    ASSUME CallInv, UNCHANGED <<cache, call, promised>>
    PROVE  CallInv'
  BY DEF CallInv, CallTypeOK, InFlightOK, ReadyOK, RunningInMap, WaitersOK, InnerOK,
         NestedOK, BodiesOK, FailuresNeverStick, Busy, AtLeast

-----------------------------------------------------------------------------
(* The live streams.                                                       *)

\* Nobody is connected, and everything there is has been signalled.
LEMMA StreamsInit == CacheInit /\ LiveInit => StreamsOK /\ SignalsOK
  <1> SUFFICES ASSUME CacheInit, LiveInit PROVE StreamsOK /\ SignalsOK
    OBVIOUS
  <1>1. /\ data = 0 /\ prices \in Table /\ signalled = Current
        /\ stream = [s \in Streams |-> Off]
    BY RespCacheConstants DEF CacheInit, LiveInit, FirstTable, Table
  <1>2. signalled \in View /\ signalled.data = data /\ signalled.prices = prices
    BY <1>1 DEF Current, View
  <1>3. AtLeast(prices, signalled.prices)
    BY <1>1, <1>2 DEF AtLeast, Table
  <1>4. \A s \in Streams : stream[s].pc = "off"
    BY <1>1 DEF Off
  <1> QED BY <1>1, <1>2, <1>3, <1>4 DEF StreamsOK, SignalsOK, Resting

\* A connection is off, or has all its fields.
LEMMA StreamTypes ==
    ASSUME StreamsOK, NEW s \in Streams
    PROVE  /\ stream[s] \in OpenStream \cup {Off}
           /\ stream[s].pc # "off" => stream[s] \in OpenStream
  BY DEF StreamsOK, Off, OpenStream

\* The store and the price table move on while streams and signals stay.
LEMMA ProgressKeepsStreams ==
    ASSUME StreamsOK, SignalsOK, prices \in Table, prices' \in Table,
           UNCHANGED <<signalled, stream>>,
           data' \in Nat, data' >= data, AtLeast(prices', prices)
    PROVE  StreamsOK' /\ SignalsOK'
  <1>1. StreamsOK'
    BY DEF StreamsOK
  <1>2. data' >= signalled.data /\ AtLeast(prices', signalled.prices)
    BY DEF StreamsOK, SignalsOK, View, Table, AtLeast
  <1> QED BY <1>1, <1>2 DEF SignalsOK, Resting, Shows

\* A signal finds the slot of every subscriber, or finds it full.
LEMMA NotifyKeepsStreams ==
    ASSUME StreamsOK, SignalsOK, prices \in Table, UNCHANGED <<data, prices>>, Notify
    PROVE  StreamsOK' /\ SignalsOK'
  <1>1. /\ signalled' \in View /\ signalled'.data = data /\ signalled'.prices = prices
    BY DEF Notify, Current, View, StreamsOK
  <1>2. ASSUME NEW s \in Streams
        PROVE  /\ stream'[s] \in OpenStream \cup {Off}
               /\ stream'[s].pc \in {"waiting", "sending"} => stream'[s].pending
               /\ stream'[s].pc = "greeted" => ~stream'[s].live
    <2>1. CASE Subscribed(s)
      <3>1. stream[s] \in OpenStream
        BY <2>1, StreamTypes DEF Subscribed
      <3>2. stream'[s] = [stream[s] EXCEPT !.pending = TRUE]
        BY <2>1 DEF Notify
      <3> QED BY <2>1, <3>1, <3>2 DEF OpenStream, Subscribed
    <2>2. CASE ~Subscribed(s)
      <3>1. stream'[s] = stream[s]
        BY <2>2 DEF Notify
      <3> QED BY <2>2, <3>1, StreamTypes DEF Subscribed, SignalsOK
    <2> QED BY <2>1, <2>2
  <1>3. StreamsOK'
    <2>1. stream' = [s \in Streams |-> stream'[s]]
      BY DEF Notify
    <2> QED BY <1>1, <1>2, <2>1 DEF StreamsOK
  <1>4. data' >= signalled'.data /\ AtLeast(prices', signalled'.prices)
    BY <1>1 DEF StreamsOK, Table, AtLeast
  <1> QED BY <1>2, <1>3, <1>4 DEF SignalsOK, Resting

\* A writer commits, fails or signals.
LEMMA WriteKeepsStreams ==
    ASSUME StreamsOK, SignalsOK, prices \in Table, NEW w \in Writers, Write(w)
    PROVE  StreamsOK' /\ SignalsOK' /\ prices' = prices
  <1>1. prices' = prices /\ AtLeast(prices', prices)
    BY DEF Write, Commit, PartialFailure, Signal, Table, AtLeast
  <1>2. CASE \E change \in {"inserted", "merged"} : Commit(w, change)
    <2>1. data' = data + 1 /\ UNCHANGED <<signalled, stream>>
      BY <1>2 DEF Commit
    <2>2. data' \in Nat /\ data' >= data
      BY <2>1 DEF StreamsOK
    <2> QED BY <1>1, <2>1, <2>2, ProgressKeepsStreams
  <1>3. CASE PartialFailure(w)
    <2>1. UNCHANGED <<data, signalled, stream>>
      BY <1>3 DEF PartialFailure
    <2>2. data' \in Nat /\ data' >= data
      BY <2>1 DEF StreamsOK
    <2> QED BY <1>1, <2>1, <2>2, ProgressKeepsStreams
  <1>4. CASE Signal(w)
    BY <1>1, <1>4, NotifyKeepsStreams DEF Signal
  <1> QED BY <1>1, <1>2, <1>3, <1>4 DEF Write

\* A step of one handler concerns its own connection: what it becomes is all
\* there is to show.
LEMMA ToKeepsStreams ==
    ASSUME StreamsOK, SignalsOK, NEW s \in Streams, NEW new \in OpenStream \cup {Off},
           To(s, new), new.pc = "greeted" => ~new.live,
           \/ new.pc \notin {"waiting", "sending"}
           \/ new.pc = "waiting" /\ (new.pending \/ ~new.live)
           \/ new.pc = "sending" /\ new.pending
           \/ /\ new.shown.data >= signalled.data
              /\ new.shown.prices.catalog >= signalled.prices.catalog
              /\ new.shown.prices.overrides >= signalled.prices.overrides
    PROVE  StreamsOK' /\ SignalsOK' /\ prices' = prices
  <1>1. /\ stream' = [stream EXCEPT ![s] = new]
        /\ UNCHANGED <<data, prices, signalled>>
    BY DEF To
  <1>2. StreamsOK' /\ stream'[s] = new /\ \A t \in Streams \ {s} : stream'[t] = stream[t]
    BY <1>1 DEF StreamsOK
  <1>3. data' >= signalled'.data /\ AtLeast(prices', signalled'.prices)
    BY <1>1 DEF SignalsOK, AtLeast
  <1>4. \A t \in Streams \ {s} :
            (/\ stream[t].pc = "greeted" => ~stream[t].live
             /\ stream[t].pc = "sending" /\ ~stream[t].pending => Shows(t, signalled)
             /\ Resting(t) /\ stream[t].live => Shows(t, signalled))'
    BY <1>1, <1>2 DEF SignalsOK, Resting, Shows
  <1>5. /\ stream'[s].pc = "greeted" => ~stream'[s].live
        /\ stream'[s].pc = "sending" /\ ~stream'[s].pending => Shows(s, signalled)'
        /\ Resting(s)' /\ stream'[s].live => Shows(s, signalled)'
    BY <1>1, <1>2 DEF Resting, Shows
  <1> QED BY <1>1, <1>2, <1>3, <1>4, <1>5 DEF SignalsOK

\* Every step of a handler: the slot is emptied before the payload is read,
\* so a payload read beside an empty slot shows the last signal.
LEMMA ServeKeepsStreams ==
    ASSUME StreamsOK, SignalsOK, prices \in Table, NEW s \in Streams, Serve(s)
    PROVE  StreamsOK' /\ SignalsOK' /\ prices' = prices
  <1>0. Current \in View /\ Current.data = data /\ Current.prices = prices
    BY DEF Current, View, StreamsOK
  <1>1. stream[s].pc # "off" => stream[s] \in OpenStream
    BY StreamTypes
  <1>2. CASE Connect(s)
    <2> DEFINE new == [pc |-> "greeted", pending |-> FALSE, shown |-> Current, live |-> FALSE]
    <2>1. new \in OpenStream /\ new.pc = "greeted" /\ ~new.live /\ To(s, new)
      BY <1>0, <1>2 DEF Connect, OpenStream
    <2> HIDE DEF new
    <2> QED BY <2>1, ToKeepsStreams
  <1>3. CASE Subscribe(s)
    <2> DEFINE new == [stream[s] EXCEPT !.pc = "waiting"]
    <2>1. stream[s] \in OpenStream /\ stream[s].pc = "greeted" /\ To(s, new)
      BY <1>1, <1>3 DEF Subscribe
    <2>2. /\ new \in OpenStream /\ new.pc = "waiting"
          /\ new.live = stream[s].live /\ new.pending = stream[s].pending
      BY <2>1 DEF OpenStream
    <2>3. ~stream[s].live
      BY <2>1 DEF SignalsOK
    <2> HIDE DEF new
    <2> QED BY <2>1, <2>2, <2>3, ToKeepsStreams
  <1>4. CASE Wake(s)
    <2> DEFINE new == [stream[s] EXCEPT !.pc = "sleeping", !.pending = FALSE]
    <2>1. stream[s] \in OpenStream /\ To(s, new)
      BY <1>1, <1>4 DEF Wake
    <2>2. new \in OpenStream /\ new.pc = "sleeping"
      BY <2>1 DEF OpenStream
    <2> HIDE DEF new
    <2> QED BY <2>1, <2>2, ToKeepsStreams
  <1>5. CASE Drain(s)
    <2> DEFINE new == [stream[s] EXCEPT !.pc = "reading", !.pending = FALSE]
    <2>1. stream[s] \in OpenStream /\ To(s, new)
      BY <1>1, <1>5 DEF Drain
    <2>2. new \in OpenStream /\ new.pc = "reading"
      BY <2>1 DEF OpenStream
    <2> HIDE DEF new
    <2> QED BY <2>1, <2>2, ToKeepsStreams
  <1>6. CASE Tick(s)
    <2> DEFINE new == [stream[s] EXCEPT !.pc = "reading"]
    <2>1. stream[s] \in OpenStream /\ To(s, new)
      BY <1>1, <1>6 DEF Tick
    <2>2. new \in OpenStream /\ new.pc = "reading"
      BY <2>1 DEF OpenStream
    <2> HIDE DEF new
    <2> QED BY <2>1, <2>2, ToKeepsStreams
  <1>7. CASE ReadPayload(s)
    <2> DEFINE new == [stream[s] EXCEPT !.pc = "sending", !.shown = Current]
    <2>1. stream[s] \in OpenStream /\ To(s, new)
      BY <1>1, <1>7 DEF ReadPayload
    <2>2. new \in OpenStream /\ new.pc = "sending" /\ new.shown = Current
      BY <1>0, <2>1 DEF OpenStream
    <2>3. /\ Current.data >= signalled.data
          /\ Current.prices.catalog >= signalled.prices.catalog
          /\ Current.prices.overrides >= signalled.prices.overrides
      BY <1>0 DEF SignalsOK, AtLeast
    <2> HIDE DEF new
    <2> QED BY <2>1, <2>2, <2>3, ToKeepsStreams
  <1>8. CASE Flush(s)
    <2> DEFINE new == [stream[s] EXCEPT !.pc = "waiting", !.live = TRUE]
    <2>1. stream[s] \in OpenStream /\ To(s, new) /\ stream[s].pc = "sending"
      BY <1>1, <1>8 DEF Flush
    <2>2. /\ new \in OpenStream /\ new.pc = "waiting"
          /\ new.shown = stream[s].shown /\ new.pending = stream[s].pending
      BY <2>1 DEF OpenStream
    <2>3. stream[s].pending \/ Shows(s, signalled)
      BY <2>1 DEF SignalsOK
    <2> HIDE DEF new
    <2> QED BY <2>1, <2>2, <2>3, ToKeepsStreams DEF Shows
  <1>9. CASE Hangup(s)
    BY <1>9, ToKeepsStreams DEF Hangup, Off
  <1> QED BY <1>2, <1>3, <1>4, <1>5, <1>6, <1>7, <1>8, <1>9 DEF Serve, StreamStep

-----------------------------------------------------------------------------
(* The hub.                                                                *)

\* Every behaviour starts in the invariant.
LEMMA ViewsInvInit == Init => ViewsInv
  BY ReloadInvInit, CallInvInit, StreamsInit DEF Init, ViewsInv

\* Every step keeps the invariant, and never takes a price table back.
LEMMA ViewsInvStep ==
    ASSUME ViewsInv, [Next]_vars
    PROVE  ViewsInv' /\ AtLeast(prices', prices)
  <1> USE DEF ViewsInv
  <1>0. prices \in Table /\ audience \in Audiences /\ AtLeast(prices, prices)
    BY DEF ReloadInv, ReloadTypeOK, Table, AtLeast
  <1>1. ASSUME NEW r \in audience.reloaders, Reload(r), UNCHANGED audience
        PROVE  ViewsInv' /\ AtLeast(prices', prices)
    <2>1. r \in Reloaders
      BY <1>0, HubViewsConstants DEF Reloaders
    <2>2. ReloadInv' /\ AtLeast(prices', prices) /\ AtLeast(promised', promised)
      BY <1>1, <2>1, ReloadStepKeepsInv DEF Reload
    <2>3. CallInv'
      <3>1. CASE Clear(r)
        BY <2>1, <2>2, <3>1, ClearKeepsCalls
      <3>2. CASE ~Clear(r)
        BY <1>1, <3>2, OthersKeepCalls
           DEF Reload, SaveOverrides, FetchCatalog, Build, BuildFails, Swap,
               SaveFailsLate, Announce
      <3> QED BY <3>1, <3>2
    <2>4. StreamsOK' /\ SignalsOK'
      <3>1. CASE Announce(r)
        BY <1>0, <3>1, NotifyKeepsStreams DEF Announce
      <3>2. CASE ~Announce(r)
        <4>1. UNCHANGED <<data, signalled, stream>>
          BY <1>1, <3>2 DEF Reload, liveVars
        <4>2. prices' \in Table
          BY <2>2 DEF ReloadInv, ReloadTypeOK
        <4>3. data' \in Nat /\ data' >= data
          BY <4>1 DEF StreamsOK
        <4> QED BY <1>0, <2>2, <4>1, <4>2, <4>3, ProgressKeepsStreams
      <3> QED BY <3>1, <3>2
    <2> QED BY <1>0, <1>1, <2>2, <2>3, <2>4
  <1>2. ASSUME UNCHANGED <<overrides, catalog, prices, promised, reload>>, CallInv',
               UNCHANGED <<liveVars, audience>>
        PROVE  ViewsInv' /\ AtLeast(prices', prices)
    <2>1. ReloadInv'
      BY <1>2, PollKeepsTables
    <2>2. UNCHANGED <<data, signalled, stream>> /\ data' \in Nat /\ data' >= data
      BY <1>2 DEF liveVars, StreamsOK
    <2>3. StreamsOK' /\ SignalsOK'
      BY <1>0, <1>2, <2>2, ProgressKeepsStreams
    <2> QED BY <1>0, <1>2, <2>1, <2>3
  <1>3. ASSUME NEW c \in audience.callers, OnCache(Poll(c))
        PROVE  ViewsInv' /\ AtLeast(prices', prices)
    <2>1. c \in Callers
      BY <1>0, HubViewsConstants
    <2>2. UNCHANGED <<overrides, catalog, prices, promised, reload>>
      BY <1>3 DEF OnCache, Poll, Request, Nest, Bytes, Absorb, Compute, ReadPrices,
                  Succeed, Fail, Respond
    <2>3. CallInv'
      BY <1>3, <2>1, PollKeepsCalls DEF OnCache
    <2> QED BY <1>2, <1>3, <2>2, <2>3 DEF OnCache
  <1>4. ASSUME NEW k \in Keys, OnCache(Expire(k))
        PROVE  ViewsInv' /\ AtLeast(prices', prices)
    BY <1>2, <1>4, ExpireKeepsCalls DEF OnCache, Expire
  <1>5. ASSUME UNCHANGED <<overrides, catalog, promised, reload, cache, call, audience>>,
               StreamsOK', SignalsOK', prices' = prices
        PROVE  ViewsInv' /\ AtLeast(prices', prices)
    BY <1>0, <1>5, PollKeepsTables, OthersKeepCalls
  <1>6. ASSUME NEW w \in audience.writers, OnStreams(Write(w))
        PROVE  ViewsInv' /\ AtLeast(prices', prices)
    <2>1. w \in Writers
      BY <1>0, HubViewsConstants
    <2> QED BY <1>0, <1>5, <1>6, <2>1, WriteKeepsStreams DEF OnStreams
  <1>7. ASSUME NEW s \in audience.streams, OnStreams(Serve(s))
        PROVE  ViewsInv' /\ AtLeast(prices', prices)
    <2>1. s \in Streams
      BY <1>0, HubViewsConstants
    <2> QED BY <1>0, <1>5, <1>7, <2>1, ServeKeepsStreams DEF OnStreams
  <1>8. CASE UNCHANGED vars
    <2>1. UNCHANGED <<overrides, catalog, prices, promised, reload, cache, call>>
              /\ UNCHANGED <<liveVars, audience>>
      BY <1>8 DEF vars, cacheVars
    <2> QED BY <1>2, <2>1, OthersKeepCalls
  <1> QED BY <1>1, <1>3, <1>4, <1>6, <1>7, <1>8 DEF Next

\* No answer of the response cache is priced with a table older than the one
\* whose reload had finished when the request came, for any number of requests,
\* saves and refreshes.
THEOREM ReloadsReachRequests == Spec => []ReloadReachesRequests
  <1>1. ViewsInv => ReloadReachesRequests
    BY DEF ViewsInv, CallInv, BodiesOK, ReloadReachesRequests
  <1> QED BY <1>1, ViewsInvInit, ViewsInvStep, PTL DEF Spec

\* At most one computation per key of the current map runs at a time.
THEOREM OneComputationPerKey == Spec => []SingleFlight
  <1>1. ViewsInv => SingleFlight
    BY EntriesDiffer DEF ViewsInv, CallInv, RunningInMap, Busy, SingleFlight
  <1> QED BY <1>1, ViewsInvInit, ViewsInvStep, PTL DEF Spec

\* An error is answered only to requests that were there when it happened.
THEOREM FailuresAreNotCached == Spec => []FailuresNeverStick
  <1>1. ViewsInv => FailuresNeverStick
    BY DEF ViewsInv, CallInv
  <1> QED BY <1>1, ViewsInvInit, ViewsInvStep, PTL DEF Spec

\* A handler of handleStream that rests has sent what could be read at the last
\* signal, however signals are dropped, drained and overtaken by reads.
THEOREM NoSignalIsLost == Spec => []SignalNeverLost
  <1>1. ViewsInv => SignalNeverLost
    BY DEF ViewsInv, SignalsOK, SignalNeverLost
  <1> QED BY <1>1, ViewsInvInit, ViewsInvStep, PTL DEF Spec

\* The live price table never goes back to an older catalog or older overrides.
THEOREM PricesAdvance == Spec => PricesOnlyAdvance
  <1>1. ViewsInv /\ [Next]_vars => [AtLeast(prices', prices)]_prices
    BY ViewsInvStep
  <1> QED BY <1>1, ViewsInvInit, ViewsInvStep, PTL DEF Spec, PricesOnlyAdvance
=============================================================================
