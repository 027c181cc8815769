------------------------------ MODULE HubIngest ------------------------------
(***************************************************************************)
(* The hub's v2 ingest endpoint (internal/server/ingestv2.go over          *)
(* internal/store/ingestv2.go).  A request occupies a connection; its      *)
(* handler authenticates the device and then applies the envelope in a     *)
(* transaction of its own.  Handlers of different connections interleave   *)
(* between the two, and the admin's revocation can land there too.  The    *)
(* client may be gone before the handler ends: the handler ends anyway.    *)
(***************************************************************************)
EXTENDS Integers, Sequences

CONSTANTS
    Conns,       \* concurrent requests the hub serves, a bound of the model
    Devices,     \* registered devices
    Requests,    \* the envelopes a client may post
    NoEnvelope,  \* an idle connection's envelope
    NoAck        \* the answer of a connection that has none

VARIABLES
    receipts,    \* table ingest_receipts (batch_id is its primary key)
    applied,     \* history: the envelopes whose payload was applied, in order
    revoked,     \* devices whose devices.revoked_at is set
    handler      \* per connection: how far the request on it has come

Stages == {"idle", "received", "authenticated", "answered", "refused"}

\* The receipt of an envelope, which is also the acknowledgement sent for it.
AckFor(env) ==
    [device |-> env.device, batch |-> env.batch, sequence |-> env.sequence]

Acks == {AckFor(env) : env \in Requests}

Handler == [stage : Stages, env : Requests \cup {NoEnvelope},
            ack : Acks \cup {NoAck}]

Idle == [stage |-> "idle", env |-> NoEnvelope, ack |-> NoAck]

HubInit ==
    /\ receipts = {}
    /\ applied = <<>>
    /\ revoked = {}
    /\ handler = [c \in Conns |-> Idle]

\* A well-formed request is on its way to the hub, or has been decoded there.
Receive(c, env) ==
    /\ handler[c].stage = "idle"
    /\ handler' = [handler EXCEPT
            ![c] = [stage |-> "received", env |-> env, ack |-> NoAck]]
    /\ UNCHANGED <<receipts, applied, revoked>>

\* The request on connection c comes to a stage, with an answer or without.
Reach(c, stage, ack) ==
    handler' = [handler EXCEPT
        ![c] = [stage |-> stage, env |-> handler[c].env, ack |-> ack]]

\* AuthenticateDevice: the credential is the device's and not revoked (401).
Authenticate(c) ==
    /\ handler[c].stage = "received"
    /\ IF handler[c].env.device \in revoked
       THEN Reach(c, "refused", NoAck)
       ELSE Reach(c, "authenticated", NoAck)
    /\ UNCHANGED <<receipts, applied, revoked>>

\* Mutant: the receipt is not looked up before the payload is applied.
ApplyAlways(c) ==
    LET env == handler[c].env
    IN  /\ handler[c].stage = "authenticated"
        /\ applied' = Append(applied, env)
        /\ receipts' = receipts \cup {AckFor(env)}
        /\ Reach(c, "answered", AckFor(env))
        /\ UNCHANGED revoked

\* ApplyIngestV2 on a batch id that has no receipt: payload and receipt are
\* written by one transaction.
ApplyNew(c) ==
    LET env == handler[c].env
    IN  /\ handler[c].stage = "authenticated"
        /\ \A r \in receipts : r.batch # env.batch
        /\ applied' = Append(applied, env)
        /\ receipts' = receipts \cup {AckFor(env)}
        /\ Reach(c, "answered", AckFor(env))
        /\ UNCHANGED revoked

\* Mutant: a duplicate is refused instead of answered with its receipt.
ReplayRefused(c) ==
    /\ handler[c].stage = "authenticated"
    /\ \E r \in receipts : r.batch = handler[c].env.batch
    /\ Reach(c, "refused", NoAck)
    /\ UNCHANGED <<receipts, applied, revoked>>

\* Mutant: the receipt's device is not compared with the sender's.
ReplayToAnyone(c) ==
    /\ handler[c].stage = "authenticated"
    /\ \E r \in receipts :
        /\ r.batch = handler[c].env.batch
        /\ Reach(c, "answered", r)
    /\ UNCHANGED <<receipts, applied, revoked>>

\* Mutant: a duplicate is answered with some receipt of the device.
ReplayOfDevice(c) ==
    /\ handler[c].stage = "authenticated"
    /\ \E r \in receipts : r.batch = handler[c].env.batch
    /\ \E r \in receipts :
        /\ r.device = handler[c].env.device
        /\ Reach(c, "answered", r)
    /\ UNCHANGED <<receipts, applied, revoked>>

\* ApplyIngestV2 on a batch id that has one: the stored acknowledgement is
\* replayed and nothing is applied; another device's receipt is a 409.
Replay(c) ==
    /\ handler[c].stage = "authenticated"
    /\ \E r \in receipts :
        /\ r.batch = handler[c].env.batch
        /\ IF r.device = handler[c].env.device
           THEN Reach(c, "answered", r)
           ELSE Reach(c, "refused", NoAck)
    /\ UNCHANGED <<receipts, applied, revoked>>

\* The request is lost on its way, the store errs (500), or the hub stops
\* before the transaction commits.
Fail(c) ==
    /\ handler[c].stage \in {"received", "authenticated"}
    /\ Reach(c, "refused", NoAck)
    /\ UNCHANGED <<receipts, applied, revoked>>

\* The response has been written, read or lost.
Close(c) ==
    /\ handler[c].stage \in {"answered", "refused"}
    /\ handler' = [handler EXCEPT ![c] = Idle]
    /\ UNCHANGED <<receipts, applied, revoked>>

\* RevokeDevice, by the admin; nothing clears revoked_at.
Revoke(d) ==
    /\ d \notin revoked
    /\ revoked' = revoked \cup {d}
    /\ UNCHANGED <<receipts, applied, handler>>

Handle(c) == Authenticate(c) \/ ApplyNew(c) \/ Replay(c)

\* The endpoint on its own, under any well-formed requests of its clients.
HubNext ==
    \/ \E c \in Conns :
        \/ \E env \in Requests : Receive(c, env)
        \/ Handle(c)
        \/ Fail(c)
        \/ Close(c)
    \/ \E d \in Devices : Revoke(d)

HubSpec == HubInit /\ [][HubNext]_<<receipts, applied, revoked, handler>>

HubTypeOK ==
    /\ receipts \subseteq Acks
    /\ applied \in Seq(Requests)
    /\ revoked \subseteq Devices
    /\ handler \in [Conns -> Handler]

-----------------------------------------------------------------------------
(* Properties of the endpoint, whatever its clients post.                  *)

\* A payload and its receipt are one transaction (comment on ApplyIngestV2):
\* each batch id is applied at most once, and has a receipt exactly when it
\* was, with the device and the sequence of the envelope that was applied.
ReceiptPerAppliedBatch ==
    /\ receipts = {AckFor(applied[i]) : i \in DOMAIN applied}
    /\ \A i, j \in DOMAIN applied : applied[i].batch = applied[j].batch => i = j

\* No device is told that a batch another device delivered is its own: an
\* acknowledgement is the receipt of the asking device's batch.
AnswerNamesItsDevice ==
    \A c \in Conns :
        handler[c].stage = "answered" =>
            /\ handler[c].ack \in receipts
            /\ handler[c].ack.device = handler[c].env.device
            /\ handler[c].ack.batch = handler[c].env.batch
=============================================================================
