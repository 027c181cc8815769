----------------------------- MODULE LiveStream -----------------------------
(***************************************************************************)
(* Live updates (internal/server/live.go): writers commit to the store and *)
(* then signal the broadcaster; each SSE handler holds a channel with one  *)
(* slot, sleeps a second on a signal to let a burst pass, empties the slot *)
(* again and sends what livePayload reads.  A timer sends without a signal.*)
(***************************************************************************)
EXTENDS Integers

CONSTANTS
    Writers,     \* requests and collectors that write to the store
    Transport,   \* per writer: "v2" (handleIngestV2), "v1" (handleIngest) or
                 \* "local" (the hub's own collectors and its proxy)
    Streams,     \* SSE connections
    MaxWrites    \* bound: commits in a behaviour

VARIABLES
    data,        \* version of the store's contents
    prices,      \* version of the live price table, which others change
    signalled,   \* history: what could be read at the last signal
    writer,      \* per writer: is it about to signal?
    stream       \* per connection: its handler, slot and last payload

Current == [data |-> data, prices |-> prices]

Off == [pc |-> "off"]

LiveInit ==
    /\ data = 0
    /\ signalled = Current
    /\ writer = [w \in Writers |-> "idle"]
    /\ stream = [s \in Streams |-> Off]

Subscribed(s) == stream[s].pc \notin {"off", "greeted"}

\* A signal into a full slot is dropped.
Notify ==
    /\ stream' = [s \in Streams |->
            IF Subscribed(s) THEN [stream[s] EXCEPT !.pending = TRUE] ELSE stream[s]]
    /\ signalled' = Current

\* Only the v2 endpoint looks at what changed; the others at what is new.
Signals(w, change) == Transport[w] = "v2" \/ change = "inserted"

\* A batch is committed that inserts rows, or only merges into rows.
Commit(w, change) ==
    /\ writer[w] = "idle"
    /\ data < MaxWrites
    /\ data' = data + 1
    /\ writer' = [writer EXCEPT ![w] = IF Signals(w, change) THEN "notify" ELSE "idle"]
    /\ UNCHANGED <<prices, signalled, stream>>

\* handleIngest stores quotas and processes after the events; when one of
\* them fails it answers 500 and signals nothing.
PartialFailure(w) ==
    /\ writer[w] = "notify" /\ Transport[w] = "v1"
    /\ writer' = [writer EXCEPT ![w] = "idle"]
    /\ UNCHANGED <<data, prices, signalled, stream>>

Signal(w) ==
    /\ writer[w] = "notify"
    /\ writer' = [writer EXCEPT ![w] = "idle"]
    /\ Notify
    /\ UNCHANGED <<data, prices>>

Write(w) ==
    \/ \E change \in {"inserted", "merged"} : Commit(w, change)
    \/ PartialFailure(w)
    \/ Signal(w)

-----------------------------------------------------------------------------
(* handleStream.                                                           *)

To(s, new) ==
    /\ stream' = [stream EXCEPT ![s] = new]
    /\ UNCHANGED <<data, prices, signalled, writer>>

\* The snapshot goes out before the handler subscribes.
Connect(s) ==
    /\ stream[s].pc = "off"
    /\ To(s, [pc |-> "greeted", pending |-> FALSE, shown |-> Current, live |-> FALSE])

Subscribe(s) ==
    /\ stream[s].pc = "greeted"
    /\ To(s, [stream[s] EXCEPT !.pc = "waiting"])

Wake(s) ==
    /\ stream[s].pc = "waiting" /\ stream[s].pending
    /\ To(s, [stream[s] EXCEPT !.pc = "sleeping", !.pending = FALSE])

\* The second is over: signals that came meanwhile are covered by this send.
Drain(s) ==
    /\ stream[s].pc = "sleeping"
    /\ To(s, [stream[s] EXCEPT !.pc = "reading", !.pending = FALSE])

\* Mutant: the timer sends a comment only.
TickSilent(s) == FALSE

\* The refresh timer.
Tick(s) ==
    /\ stream[s].pc = "waiting"
    /\ To(s, [stream[s] EXCEPT !.pc = "reading"])

ReadPayload(s) ==
    /\ stream[s].pc = "reading"
    /\ To(s, [stream[s] EXCEPT !.pc = "sending", !.shown = Current])

\* Mutant: the slot is emptied after the payload was read.
FlushDraining(s) ==
    /\ stream[s].pc = "sending"
    /\ To(s, [stream[s] EXCEPT !.pc = "waiting", !.live = TRUE, !.pending = FALSE])

Flush(s) ==
    /\ stream[s].pc = "sending"
    /\ To(s, [stream[s] EXCEPT !.pc = "waiting", !.live = TRUE])

\* The client leaves, its session is revoked, or the payload cannot be read.
Hangup(s) ==
    /\ stream[s].pc # "off"
    /\ To(s, Off)

StreamStep(s) == Subscribe(s) \/ Drain(s) \/ ReadPayload(s) \/ Flush(s)

Serve(s) == Connect(s) \/ Wake(s) \/ Tick(s) \/ StreamStep(s) \/ Hangup(s)

-----------------------------------------------------------------------------
(* Properties.                                                             *)

\* The handler waits with an empty slot.
Resting(s) == stream[s].pc = "waiting" /\ ~stream[s].pending

Shows(s, view) ==
    /\ stream[s].shown.data >= view.data
    /\ stream[s].shown.prices.catalog >= view.prices.catalog
    /\ stream[s].shown.prices.overrides >= view.prices.overrides

\* Coalescing loses no signal: once it has sent a first update, a handler that
\* rests has sent everything there was to read at the last signal, although
\* signals into a full slot are dropped and one is thrown away after the sleep.
SignalNeverLost ==
    \A s \in Streams :
        Resting(s) /\ stream[s].live
            => Shows(s, signalled)

\* Everything committed is shown in the end to a stream that stays connected,
\* also what nobody signalled: a merge by a v1 or local writer, a write whose
\* request failed later, a write between snapshot and subscription.
EveryWriteShown ==
    \A s \in Streams, n \in 1..MaxWrites :
        data >= n ~> (stream[s].pc = "off" \/ stream[s].shown.data >= n)
=============================================================================
