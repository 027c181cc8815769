------------------------------- MODULE Outbox -------------------------------
(***************************************************************************)
(* The agent's durable upload queue (internal/agent/outbox.go): a SQLite   *)
(* table of encoded envelopes, drained oldest first, and the sequence      *)
(* counter of the v2 ingest protocol.  Every operation below is one SQLite *)
(* transaction, so it is one action; the file is shared by every process   *)
(* of the agent (the resident one and a cron `agent -once`).               *)
(***************************************************************************)
EXTENDS Integers, Sequences, FiniteSets, FiniteSetsExt

CONSTANTS
    Device,            \* the device this agent is enrolled as
    Batches,           \* batch ids newUUID can return (external: crypto/rand)
    Payloads,          \* what an envelope carries: events, quotas or a report
    Bytes,             \* the encoded size of an envelope with that payload
    MaxBytes,          \* the queue's configured capacity
    MaxEnvelopeBytes,  \* model.MaxIngestEnvelopeBytes
    MaxSequence,       \* math.MaxUint64 in the code
    MaxChunks          \* envelopes one delivery is split into, at most

ASSUME OutboxConstants ==
    /\ MaxSequence \in Nat \ {0}
    /\ MaxChunks \in Nat \ {0}
    /\ MaxBytes \in Nat
    /\ MaxEnvelopeBytes \in Nat
    /\ \A p \in Payloads : Bytes[p] \in Nat

VARIABLES
    outbox,        \* table outbox_batches
    lastId,        \* its AUTOINCREMENT counter
    lastSequence,  \* outbox_meta.last_sequence
    enqueued       \* history: every envelope ever committed, in commit order

outboxVars == <<outbox, lastId, lastSequence, enqueued>>

\* What the wire protocol identifies a batch by, and the payload it carries.
Envelope == [device : {Device}, batch : Batches,
             sequence : 1..MaxSequence, payload : Payloads]

Row == [id : 1..MaxSequence, env : Envelope]

OutboxInit ==
    /\ outbox = {}
    /\ lastId = 0
    /\ lastSequence = 0
    /\ enqueued = <<>>

QueuedBytes == MapThenSumSet(LAMBDA r : Bytes[r.env.payload], outbox)

ChunkBytes(payloads) ==
    MapThenSumSet(LAMBDA i : Bytes[payloads[i]], DOMAIN payloads)

\* encodeOutboxEnvelope refuses an envelope the hub would answer 413.
Encodable(payload) == Bytes[payload] <= MaxEnvelopeBytes

\* Mutant: only the first of the new sequence numbers is checked.
FirstSequenceLeft(payloads) == lastSequence < MaxSequence

\* The last sequence number must not run past the counter's width.
SequenceLeft(payloads) == lastSequence + Len(payloads) <= MaxSequence

\* Mutant: the counter is not advanced between the chunks of a delivery.
AssignedAlike(payloads, ids) ==
    [i \in DOMAIN payloads |->
        [device |-> Device, batch |-> ids[i],
         sequence |-> lastSequence + 1, payload |-> payloads[i]]]

\* The envelopes of one delivery, numbered after the last one numbered.
Assigned(payloads, ids) ==
    [i \in DOMAIN payloads |->
        [device |-> Device, batch |-> ids[i],
         sequence |-> lastSequence + i, payload |-> payloads[i]]]

UsedBatches == {enqueued[n].batch : n \in DOMAIN enqueued}

\* prepareEnvelope gives every chunk a new UUID.
FreshIds(ids) ==
    \A i \in DOMAIN ids :
        /\ ids[i] \notin UsedBatches
        /\ \A j \in DOMAIN ids : ids[i] = ids[j] => i = j

\* All chunks of one delivery become durable with consecutive sequences, or
\* the call fails and nothing changes.
EnqueueManyNext(payloads, ids) ==
    LET envs == Assigned(payloads, ids)
    IN  /\ SequenceLeft(payloads)
        /\ \A i \in DOMAIN payloads : Encodable(payloads[i])
        /\ ChunkBytes(payloads) <= MaxBytes - QueuedBytes
        /\ outbox' = outbox \cup {[id |-> lastId + i, env |-> envs[i]] :
                                      i \in DOMAIN payloads}
        /\ lastId' = lastId + Len(payloads)
        /\ lastSequence' = lastSequence + Len(payloads)
        /\ enqueued' = enqueued \o envs

Enqueue ==
    \E k \in 1..MaxChunks :
        \E payloads \in [1..k -> Payloads], ids \in [1..k -> Batches] :
            FreshIds(ids) /\ EnqueueManyNext(payloads, ids)

\* Mutant: the ORDER BY is missing.
AnyRow(r) == r \in outbox

\* SELECT ... ORDER BY id LIMIT 1, as PeekBatch and Acknowledge read it.
Oldest(r) == r \in outbox /\ \A s \in outbox : r.id <= s.id

\* Mutant: an acknowledgement of the device removes whatever is the head.
MatchesDevice(ack, env) == ack.device = env.device

\* What an acknowledgement must repeat of the head before it may remove it.
Matches(ack, env) ==
    /\ ack.device = env.device
    /\ ack.batch = env.batch
    /\ ack.sequence = env.sequence

\* Acknowledge deletes the head when the acknowledgement is about the head;
\* otherwise (ErrOutboxEmpty, ErrInvalidAcknowledgement) it changes nothing.
Acknowledge(ack) ==
    /\ outbox' = outbox \ {r \in outbox : Oldest(r) /\ Matches(ack, r.env)}
    /\ UNCHANGED <<lastId, lastSequence, enqueued>>

OutboxTypeOK ==
    /\ outbox \subseteq Row
    /\ lastId \in 0..MaxSequence
    /\ lastSequence \in 0..MaxSequence
    /\ enqueued \in Seq(Envelope)
=============================================================================
