------------------------------ MODULE Delivery ------------------------------
(***************************************************************************)
(* Protocol v2 end to end: the agent's outbox, the uploaders that drain it *)
(* (internal/agent/agent.go: uploadOldest, looped by startUploadLoop and   *)
(* drainOutbox) and the hub's ingest endpoint.                             *)
(*                                                                         *)
(* An uploader peeks the head, posts it, and on a 2xx answer acknowledges  *)
(* it.  Two uploaders can hold the same head: the resident loop and a cron *)
(* `agent -once`.  A client timeout or the death of an agent process       *)
(* leaves the request running at the hub with nobody to read its answer.   *)
(***************************************************************************)
EXTENDS Outbox

CONSTANTS Uploaders, Conns, NoConn, NoEnvelope, NoAck

ASSUME ConnAssumption == NoConn \notin Conns

VARIABLES receipts, applied, revoked, handler,
          conn   \* per uploader: the connection its request is on, or NoConn

INSTANCE HubIngest WITH Requests <- Envelope, Devices <- {Device}

hub == <<receipts, applied, revoked, handler>>

vars == <<outboxVars, hub, conn>>

Init ==
    /\ OutboxInit
    /\ HubInit
    /\ conn = [u \in Uploaders |-> NoConn]

\* A producer's sink call: a scan, the proxy or the quota reader enqueues.
Produce == Enqueue /\ UNCHANGED <<hub, conn>>

\* uploadOldest up to client.Do: the head as it is now goes on the wire.
Post(u) ==
    /\ conn[u] = NoConn
    /\ \E r \in outbox, c \in Conns :
        /\ Oldest(r)
        /\ \A v \in Uploaders : conn[v] # c
        /\ Receive(c, r.env)
        /\ conn' = [conn EXCEPT ![u] = c]
    /\ UNCHANGED outboxVars

\* The answer is a 2xx: acknowledge what it says.  The head may no longer be
\* the envelope that was posted; Acknowledge decides.
ReadAnswer(u) ==
    /\ conn[u] # NoConn
    /\ handler[conn[u]].stage = "answered"
    /\ Acknowledge(handler[conn[u]].ack)
    /\ Close(conn[u])
    /\ conn' = [conn EXCEPT ![u] = NoConn]

\* Any other status, or no connection: the head stays, the caller backs off.
ReadRefusal(u) ==
    /\ conn[u] # NoConn
    /\ handler[conn[u]].stage = "refused"
    /\ Close(conn[u])
    /\ conn' = [conn EXCEPT ![u] = NoConn]
    /\ UNCHANGED outboxVars

\* Client timeout, or the uploader's process dies; the hub is not told.
Abandon(u) ==
    /\ conn[u] # NoConn
    /\ conn' = [conn EXCEPT ![u] = NoConn]
    /\ UNCHANGED <<outboxVars, hub>>

\* A handler step; Fail and Close (nobody reads) are the connection's ends.
HubStep(c) ==
    /\ \/ Handle(c)
       \/ Fail(c)
       \/ Close(c) /\ \A u \in Uploaders : conn[u] # c
    /\ UNCHANGED <<outboxVars, conn>>

RevokeStep == Revoke(Device) /\ UNCHANGED <<outboxVars, conn>>

UploaderStep(u) == Post(u) \/ ReadAnswer(u) \/ ReadRefusal(u) \/ Abandon(u)

Next ==
    \/ Produce
    \/ \E u \in Uploaders : UploaderStep(u)
    \/ \E c \in Conns : HubStep(c)
    \/ RevokeStep

Spec == Init /\ [][Next]_vars

(***************************************************************************)
(* Fairness.  Both upload loops retry for ever, so an uploader that can    *)
(* post or read does; a handler runs to its end.  The network is assumed   *)
(* to let a request through, and its answer back, infinitely often: that   *)
(* is strong fairness of the steps that a timeout or a failure can forgo.  *)
(***************************************************************************)
Fairness ==
    /\ \A u \in Uploaders :
        /\ WF_vars(Post(u))
        /\ WF_vars(ReadRefusal(u))
        /\ SF_vars(ReadAnswer(u))
        /\ SF_vars(\E c \in Conns :
                /\ conn[u] = c
                /\ Authenticate(c)
                /\ UNCHANGED <<outboxVars, conn>>)
        /\ SF_vars(\E c \in Conns :
                /\ conn[u] = c
                /\ (ApplyNew(c) \/ Replay(c))
                /\ UNCHANGED <<outboxVars, conn>>)
    /\ \A c \in Conns : WF_vars(HubStep(c))

-----------------------------------------------------------------------------
(* Properties.                                                             *)

\* Every variable holds what its table, counter or field can hold: among
\* them the sequence counter never passes its width (EnqueueManyNext's
\* "outbox sequence exhausted").
TypeOK ==
    /\ OutboxTypeOK
    /\ HubTypeOK
    /\ conn \in [Uploaders -> Conns \cup {NoConn}]

\* Insertion order and protocol order cannot diverge (comment on
\* EnqueueNext): the row with the smaller id has the smaller sequence, and a
\* sequence number names one envelope for ever.
FifoIsSequenceOrder ==
    \A r, s \in outbox :
        /\ r.id < s.id <=> r.env.sequence < s.env.sequence
        /\ r.env = enqueued[r.env.sequence]

\* A row leaves the outbox only once the hub has applied its payload,
\* whichever uploader's acknowledgement removed it: what is no longer queued
\* has been applied.
RemovedOnlyIfApplied ==
    \A n \in DOMAIN enqueued :
        \/ \E r \in outbox : r.env = enqueued[n]
        \/ \E i \in DOMAIN applied : applied[i] = enqueued[n]

\* The hub applies every batch at most once and in sequence order, whatever
\* is retried, replayed or delivered late: what it has applied is a prefix of
\* what was enqueued ("an acknowledged sequence can never skip an unsent
\* batch", reportProcs).
AppliedInOrderOnce ==
    /\ Len(applied) <= Len(enqueued)
    /\ \A i \in DOMAIN applied : applied[i] = enqueued[i]

\* An acknowledgement repeats the request it answers, also when it is the
\* replay of a stored receipt; and it is never sent without the receipt.
AnswerIsReceiptOfRequest ==
    \A c \in Conns :
        handler[c].stage = "answered" =>
            /\ handler[c].ack = AckFor(handler[c].env)
            /\ handler[c].ack \in receipts

\* Each queued batch is applied in the end, unless the device is revoked.
EveryBatchApplied ==
    \A n \in 1..MaxSequence :
        n <= Len(enqueued) ~> (n <= Len(applied) \/ revoked # {})

\* The outbox drains: a full queue is not full for ever, unless the device is
\* revoked.
OutboxDrains == [](outbox # {} => <>(outbox = {} \/ revoked # {}))

Ledger == INSTANCE Channel
    WITH Messages <- Envelope, sent <- enqueued, rcvd <- applied

\* The outbox, its uploaders and the hub only ever take steps of an
\* exactly-once, in-order channel: a step accepts the chunks of one delivery,
\* delivers the next envelope, or changes neither.
RefinesChannel == Ledger!ChannelSpec
=============================================================================
