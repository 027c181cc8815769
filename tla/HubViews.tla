------------------------------ MODULE HubViews ------------------------------
(***************************************************************************)
(* The hub's read side: pollers of the cached endpoints and SSE streams,   *)
(* over a store that writers change and a price table that settings saves  *)
(* and the scheduled refresh replace.  A reload ends with a signal to the  *)
(* streams.                                                                *)
(***************************************************************************)
EXTENDS RespCache

CONSTANTS
    Writers, Transport, Streams, MaxWrites,
    Audiences   \* which callers, reloaders, streams and writers a hub may have

ASSUME HubViewsConstants ==
    \A a \in Audiences :
        /\ a.callers \subseteq Callers /\ a.reloaders \subseteq Savers \cup {Refresher}
        /\ a.writers \subseteq Writers /\ a.streams \subseteq Streams

VARIABLES data, signalled, writer, stream,
          audience   \* the one of Audiences this hub has, for ever

INSTANCE LiveStream

liveVars == <<data, signalled, writer, stream>>

vars == <<cacheVars, liveVars, audience>>

Init ==
    /\ CacheInit
    /\ LiveInit
    /\ audience \in Audiences

\* The reload's last step: bcast.Notify.
Announce(r) ==
    /\ reload[r].pc = "notify"
    /\ Step(r, "idle", FirstTable)
    /\ Notify
    /\ UNCHANGED <<overrides, catalog, prices, promised, cache, call, data, writer>>

Reload(r) ==
    \/ /\ \/ SaveOverrides(r)
          \/ r = Refresher /\ FetchCatalog
          \/ Build(r) \/ BuildFails(r) \/ Swap(r) \/ Clear(r)
          \/ SaveFailsLate(r)
       /\ UNCHANGED liveVars
    \/ Announce(r)

OnCache(step) == step /\ UNCHANGED <<liveVars, audience>>

OnStreams(step) ==
    step /\ UNCHANGED <<overrides, catalog, promised, reload, cache, call, audience>>

Next ==
    \/ \E r \in audience.reloaders : Reload(r) /\ UNCHANGED audience
    \/ \E c \in audience.callers : OnCache(Poll(c))
    \/ \E k \in Keys : OnCache(Expire(k))
    \/ \E w \in audience.writers : OnStreams(Write(w))
    \/ \E s \in audience.streams : OnStreams(Serve(s))

(***************************************************************************)
(* Fairness: a computation ends, with a result or an error; a reload ends; *)
(* a handler that waits is woken by its timer at the latest and gets on.   *)
(***************************************************************************)
Fairness ==
    /\ \A c \in Callers :
        /\ WF_vars(OnCache(Nest(c))) /\ WF_vars(OnCache(Absorb(c)))
        /\ \A level \in {"handler", "nested"} : WF_vars(OnCache(Compute(<<c, level>>)))
    /\ \A s \in Streams :
        /\ WF_vars(OnStreams(Wake(s) \/ Tick(s)))
        /\ WF_vars(OnStreams(StreamStep(s)))

Spec == Init /\ [][Next]_vars /\ Fairness
=============================================================================
