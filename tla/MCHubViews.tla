----------------------------- MODULE MCHubViews -----------------------------
(* A hub that is polled by two clients, one whose settings two requests     *)
(* change at once, and one that streams while writers commit.  The overview *)
(* asks for the all-time totals.                                            *)
EXTENDS HubViews, TLC

CONSTANTS c1, c2, a1, a2, refresher, s1, w1, w2

MCInner == "overview" :> "all_time" @@ "all_time" :> NoKey

MCTransport == w1 :> "v2" @@ w2 :> "v1"

Hub(callers, reloaders, writers, streams) ==
    [callers |-> callers, reloaders |-> reloaders, writers |-> writers, streams |-> streams]

Polled == Hub({c1, c2}, {refresher}, {}, {})
Administered == Hub({c1}, {a1, a2, refresher}, {}, {})
Streamed == Hub({}, {refresher}, {w1, w2}, {s1})

AllHubs == {Polled, Administered, Streamed}
=============================================================================
