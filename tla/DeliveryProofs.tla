--------------------------- MODULE DeliveryProofs ---------------------------
(***************************************************************************)
(* Delivery is correct for every set of uploaders, connections, batch ids  *)
(* and payloads: the type invariant, the order and exactly-once invariants *)
(* and the refinement of Channel.  The second half is about the sources in *)
(* front of it: what collapsing and partitioning a push yield, that the    *)
(* agent implements Delivery, and what its proxy and its quota reader keep *)
(* when the sink fails.                                                    *)
(***************************************************************************)
EXTENDS AgentSources, OrderLemmas, SequenceTheorems

(***************************************************************************)
(* The inductive invariant.  EnqueuedOK and RowsOK tie rows, ids and       *)
(* sequences to the history; Contiguous says that rows leave at the head   *)
(* only; RemovedApplied and AppliedOK relate both to the hub; HandlersOK   *)
(* bounds how far ahead a request in flight can be: it was the head when   *)
(* it was posted, so everything before it had been applied already.        *)
(***************************************************************************)
EnqueuedOK ==
    /\ Len(enqueued) = lastSequence
    /\ lastId = lastSequence
    /\ \A n \in 1..Len(enqueued) : enqueued[n].sequence = n
    /\ \A m, n \in 1..Len(enqueued) :
            enqueued[m].batch = enqueued[n].batch => m = n

RowsOK ==
    \A r \in outbox :
        /\ r.id \in 1..Len(enqueued)
        /\ r.env = enqueued[r.id]

Contiguous ==
    \A r \in outbox : \A n \in 1..Len(enqueued) :
        r.id <= n => \E s \in outbox : s.id = n

RemovedApplied ==
    \A n \in 1..Len(enqueued) :
        (\A r \in outbox : r.id # n) => n <= Len(applied)

AppliedOK ==
    /\ Len(applied) <= Len(enqueued)
    /\ \A i \in 1..Len(applied) : applied[i] = enqueued[i]

ReceiptsOK == receipts = {AckFor(applied[i]) : i \in 1..Len(applied)}

HandlersOK ==
    \A c \in Conns :
        /\ handler[c].stage # "idle" =>
            \E n \in 1..Len(enqueued) :
                n <= Len(applied) + 1 /\ handler[c].env = enqueued[n]
        /\ handler[c].stage = "answered" =>
            handler[c].ack = AckFor(handler[c].env) /\ handler[c].ack \in receipts

DeliveryInv ==
    /\ EnqueuedOK
    /\ RowsOK
    /\ Contiguous
    /\ RemovedApplied
    /\ AppliedOK
    /\ ReceiptsOK
    /\ HandlersOK

-----------------------------------------------------------------------------
(* Type correctness.                                                       *)

\* The initial tables are empty and every connection is idle.
LEMMA TypeInit == Init => TypeOK
BY OutboxConstants, ConnAssumption
   DEF Init, OutboxInit, HubInit, TypeOK, OutboxTypeOK, HubTypeOK, Handler,
       Idle, Stages

\* What EnqueueManyNext commits: k well-typed envelopes numbered on from the
\* last sequence, each in a row of its own (outbox.go, EnqueueManyNext).
LEMMA EnqueueEffect ==
    ASSUME TypeOK, Enqueue
    PROVE  \E k \in 1..MaxChunks, envs \in Seq(Envelope) :
             /\ Len(envs) = k
             /\ lastSequence + k <= MaxSequence
             /\ \A i \in 1..k :
                    /\ envs[i].sequence = lastSequence + i
                    /\ envs[i].batch \notin UsedBatches
                    /\ \A j \in 1..k : envs[i].batch = envs[j].batch => i = j
             /\ outbox' = outbox \cup
                    {[id |-> lastId + i, env |-> envs[i]] : i \in 1..k}
             /\ lastId' = lastId + k
             /\ lastSequence' = lastSequence + k
             /\ enqueued' = enqueued \o envs
<1>0. PICK k \in 1..MaxChunks :
        \E payloads \in [1..k -> Payloads], ids \in [1..k -> Batches] :
            FreshIds(ids) /\ EnqueueManyNext(payloads, ids)
  BY DEF Enqueue
<1>1. PICK payloads \in [1..k -> Payloads], ids \in [1..k -> Batches] :
            FreshIds(ids) /\ EnqueueManyNext(payloads, ids)
  BY <1>0
<1>a. PICK envs : envs = Assigned(payloads, ids)
  OBVIOUS
<1>2. k \in Nat /\ DOMAIN payloads = 1..k /\ DOMAIN ids = 1..k
  BY OutboxConstants
<1>3. payloads \in Seq(Payloads) /\ Len(payloads) = k
  BY <1>2
<1>4. lastSequence + k <= MaxSequence
  BY <1>1, <1>3 DEF EnqueueManyNext, SequenceLeft
<1>5. \A i \in 1..k : envs[i] = [device |-> Device, batch |-> ids[i],
                                 sequence |-> lastSequence + i,
                                 payload |-> payloads[i]]
  BY <1>a, <1>2 DEF Assigned
<1>6. \A i \in 1..k : envs[i] \in Envelope
  <2>1. SUFFICES ASSUME NEW i \in 1..k PROVE envs[i] \in Envelope
    OBVIOUS
  <2>2. lastSequence + i \in 1..MaxSequence
    BY <1>2, <1>4, OutboxConstants DEF TypeOK, OutboxTypeOK
  <2>3. ids[i] \in Batches /\ payloads[i] \in Payloads
    OBVIOUS
  <2>4. envs[i] = [device |-> Device, batch |-> ids[i],
                   sequence |-> lastSequence + i, payload |-> payloads[i]]
    BY <1>5
  <2> QED BY <2>2, <2>3, <2>4 DEF Envelope
<1>7. envs \in Seq(Envelope) /\ Len(envs) = k
  <2>1. envs \in [1..k -> Envelope]
    BY <1>a, <1>2, <1>6 DEF Assigned
  <2> QED BY <2>1, <1>2
<1>8. \A i \in 1..k : /\ envs[i].sequence = lastSequence + i
                      /\ envs[i].batch \notin UsedBatches
                      /\ \A j \in 1..k : envs[i].batch = envs[j].batch => i = j
  <2>1. \A i \in 1..k : /\ ids[i] \notin UsedBatches
                        /\ \A j \in 1..k : ids[i] = ids[j] => i = j
    BY <1>1, <1>2 DEF FreshIds
  <2>2. \A i \in 1..k : envs[i].sequence = lastSequence + i /\ envs[i].batch = ids[i]
    <3>1. SUFFICES ASSUME NEW i \in 1..k
                   PROVE  envs[i].sequence = lastSequence + i /\ envs[i].batch = ids[i]
      OBVIOUS
    <3>2. envs[i] = [device |-> Device, batch |-> ids[i],
                     sequence |-> lastSequence + i, payload |-> payloads[i]]
      BY <1>5
    <3> QED BY <3>2
  <2> QED BY <2>1, <2>2
<1>9. /\ outbox' = outbox \cup {[id |-> lastId + i, env |-> envs[i]] : i \in 1..k}
      /\ lastId' = lastId + k
      /\ lastSequence' = lastSequence + k
      /\ enqueued' = enqueued \o envs
  BY <1>a, <1>1, <1>2, <1>3 DEF EnqueueManyNext
<1> QED BY <1>4, <1>7, <1>8, <1>9

\* Every step keeps the tables, counters and connections well typed.  The
\* counters need lastId = lastSequence, and a busy connection an envelope that
\* was enqueued, which TypeOK alone does not say.
LEMMA TypeNext ==
    ASSUME TypeOK, EnqueuedOK, HandlersOK, [Next]_vars
    PROVE  TypeOK'
<1> USE DEF TypeOK, OutboxTypeOK, HubTypeOK
<1>1. CASE Produce
  <2>1. PICK k \in 1..MaxChunks, envs \in Seq(Envelope) :
             /\ Len(envs) = k
             /\ lastSequence + k <= MaxSequence
             /\ outbox' = outbox \cup
                    {[id |-> lastId + i, env |-> envs[i]] : i \in 1..k}
             /\ lastId' = lastId + k
             /\ lastSequence' = lastSequence + k
             /\ enqueued' = enqueued \o envs
    BY <1>1, EnqueueEffect DEF Produce
  <2>2. k \in Nat /\ lastId = lastSequence
    BY OutboxConstants DEF EnqueuedOK
  <2>3. outbox' \subseteq Row
    <3>1. \A i \in 1..k : envs[i] \in Envelope /\ lastId + i \in 1..MaxSequence
      BY <2>1, <2>2, OutboxConstants
    <3> QED BY <2>1, <3>1, SMTT(30) DEF Row
  <2>4. lastId' \in 0..MaxSequence /\ lastSequence' \in 0..MaxSequence
    BY <2>1, <2>2, OutboxConstants
  <2>5. enqueued' \in Seq(Envelope)
    BY <2>1
  <2> QED BY <1>1, <2>3, <2>4, <2>5 DEF Produce, hub
<1>2. ASSUME NEW u \in Uploaders, Post(u) PROVE TypeOK'
  <2>1. PICK r \in outbox, c \in Conns :
             Receive(c, r.env) /\ conn' = [conn EXCEPT ![u] = c]
    BY <1>2 DEF Post
  <2>2. r.env \in Envelope
    BY DEF Row
  <2>3. handler' \in [Conns -> Handler]
    BY <2>1, <2>2 DEF Receive, Handler, Stages
  <2>4. UNCHANGED <<outboxVars, receipts, applied, revoked>>
    BY <1>2, <2>1 DEF Post, Receive
  <2> QED BY <2>1, <2>3, <2>4 DEF outboxVars
<1>3. ASSUME NEW u \in Uploaders, ReadAnswer(u) PROVE TypeOK'
  BY <1>3, ConnAssumption
     DEF ReadAnswer, Acknowledge, Close, Idle, Handler, Stages
<1>4. ASSUME NEW u \in Uploaders, ReadRefusal(u) PROVE TypeOK'
  BY <1>4, ConnAssumption
     DEF ReadRefusal, Close, Idle, Handler, Stages, outboxVars
<1>5. ASSUME NEW u \in Uploaders, Abandon(u) PROVE TypeOK'
  BY <1>5 DEF Abandon, outboxVars, hub
<1>6. ASSUME NEW c \in Conns, HubStep(c) PROVE TypeOK'
  <2>0. UNCHANGED <<outboxVars, conn>> /\ OutboxTypeOK'
    BY <1>6 DEF HubStep, outboxVars
  <2>1. CASE Authenticate(c)
    BY <2>0, <2>1 DEF Authenticate, Reach, Handler, Stages
  <2>2. CASE ApplyNew(c)
    <3>1. handler[c].env \in Envelope
      BY <2>2 DEF ApplyNew, HandlersOK
    <3> QED BY <2>0, <2>2, <3>1 DEF ApplyNew, Reach, Handler, Stages, Acks
  <2>3. CASE Replay(c)
    <3>1. PICK r \in receipts :
               Reach(c, "answered", r) \/ Reach(c, "refused", NoAck)
      BY <2>3 DEF Replay
    <3>2. handler' \in [Conns -> Handler]
      BY <3>1 DEF Reach, Handler, Stages
    <3> QED BY <2>0, <2>3, <3>2 DEF Replay
  <2>4. CASE Fail(c)
    BY <2>0, <2>4 DEF Fail, Reach, Handler, Stages
  <2>5. CASE Close(c)
    BY <2>0, <2>5 DEF Close, Idle, Handler, Stages
  <2> QED BY <1>6, <2>1, <2>2, <2>3, <2>4, <2>5 DEF HubStep, Handle
<1>7. CASE RevokeStep
  BY <1>7 DEF RevokeStep, Revoke, outboxVars
<1>8. CASE UNCHANGED vars
  BY <1>8 DEF vars, outboxVars, hub
<1> QED
  BY <1>1, <1>2, <1>3, <1>4, <1>5, <1>6, <1>7, <1>8 DEF Next, UploaderStep

-----------------------------------------------------------------------------
(* The inductive invariant.                                                *)

\* Nothing is enqueued, applied or in flight to begin with.
LEMMA InvInit == Init => DeliveryInv
BY DEF Init, OutboxInit, HubInit, Idle, DeliveryInv, EnqueuedOK, RowsOK,
       Contiguous, RemovedApplied, AppliedOK, ReceiptsOK, HandlersOK

\* An enqueue only adds at the tail, under fresh batch ids (EnqueueManyNext).
LEMMA InvProduce ==
    ASSUME TypeOK, DeliveryInv, Produce
    PROVE  DeliveryInv'
<1> USE DEF DeliveryInv
<1>1. PICK k \in 1..MaxChunks, envs \in Seq(Envelope) :
             /\ Len(envs) = k
             /\ \A i \in 1..k :
                    /\ envs[i].sequence = lastSequence + i
                    /\ envs[i].batch \notin UsedBatches
                    /\ \A j \in 1..k : envs[i].batch = envs[j].batch => i = j
             /\ outbox' = outbox \cup
                    {[id |-> lastId + i, env |-> envs[i]] : i \in 1..k}
             /\ lastId' = lastId + k
             /\ lastSequence' = lastSequence + k
             /\ enqueued' = enqueued \o envs
  BY EnqueueEffect DEF Produce
<1>2. /\ k \in Nat
      /\ Len(enqueued) \in Nat
      /\ lastId = Len(enqueued)
      /\ lastSequence = Len(enqueued)
      /\ enqueued \in Seq(Envelope)
      /\ applied \in Seq(Envelope) /\ Len(applied) \in Nat
  BY OutboxConstants DEF EnqueuedOK, TypeOK, OutboxTypeOK, HubTypeOK
<1>3. /\ Len(enqueued') = Len(enqueued) + k
      /\ \A n \in 1..Len(enqueued) : enqueued'[n] = enqueued[n]
      /\ \A i \in 1..k : enqueued'[Len(enqueued) + i] = envs[i]
  <2>1. Len(envs) = k /\ enqueued' = enqueued \o envs
    BY <1>1
  <2>2. Len(enqueued') = Len(enqueued) + k
    <3>1. Len(enqueued \o envs) = Len(enqueued) + Len(envs)
      BY <1>2, ConcatProperties
    <3> QED BY <2>1, <3>1
  <2>3. ASSUME NEW n \in 1..Len(enqueued) PROVE enqueued'[n] = enqueued[n]
    BY <1>2, <2>1
  <2>4. ASSUME NEW i \in 1..k PROVE enqueued'[Len(enqueued) + i] = envs[i]
    <3>1. Len(enqueued) + i \in 1..Len(enqueued) + Len(envs)
      BY <1>2, <2>1
    <3>2. (enqueued \o envs)[Len(enqueued) + i] = envs[Len(enqueued) + i - Len(enqueued)]
      BY <1>2, <2>1, <3>1
    <3> QED BY <1>2, <2>1, <3>2
  <2> QED BY <2>2, <2>3, <2>4
<1>4. UNCHANGED <<receipts, applied, revoked, handler, conn>>
  BY DEF Produce, hub
<1>5. \A n \in 1..Len(enqueued') :
        n \in 1..Len(enqueued) \/ \E i \in 1..k : n = Len(enqueued) + i
  <2>1. SUFFICES ASSUME NEW n \in 1..Len(enqueued'), n \notin 1..Len(enqueued)
                 PROVE  \E i \in 1..k : n = Len(enqueued) + i
    OBVIOUS
  <2>2. Len(enqueued') = Len(enqueued) + k /\ Len(enqueued) \in Nat /\ k \in Nat
    BY <1>2, <1>3
  <2>3. n - Len(enqueued) \in 1..k
    BY <2>1, <2>2
  <2> QED BY <2>2, <2>3
<1>6. EnqueuedOK'
  <2>1. \A n \in 1..Len(enqueued) : enqueued[n].batch \in UsedBatches
    BY <1>2 DEF UsedBatches
  <2>2. \A n \in 1..Len(enqueued') : enqueued'[n].sequence = n
    BY <1>1, <1>2, <1>3, <1>5, SMTT(30) DEF EnqueuedOK
  <2>3. ASSUME NEW m \in 1..Len(enqueued'), NEW n \in 1..Len(enqueued'),
               enqueued'[m].batch = enqueued'[n].batch
        PROVE  m = n
    <3>1. CASE m \in 1..Len(enqueued) /\ n \in 1..Len(enqueued)
      BY <1>3, <2>3, <3>1 DEF EnqueuedOK
    <3>2. CASE m \in 1..Len(enqueued) /\ \E i \in 1..k : n = Len(enqueued) + i
      BY <1>1, <1>3, <2>1, <2>3, <3>2
    <3>3. CASE n \in 1..Len(enqueued) /\ \E i \in 1..k : m = Len(enqueued) + i
      BY <1>1, <1>3, <2>1, <2>3, <3>3
    <3>4. CASE /\ \E i \in 1..k : m = Len(enqueued) + i
               /\ \E i \in 1..k : n = Len(enqueued) + i
      BY <1>1, <1>3, <2>3, <3>4
    <3> QED BY <1>5, <3>1, <3>2, <3>3, <3>4
  <2>4. Len(enqueued') = lastSequence' /\ lastId' = lastSequence'
    BY <1>1, <1>2, <1>3
  <2> QED BY <2>2, <2>3, <2>4 DEF EnqueuedOK
<1>7. RowsOK'
  <2>1. SUFFICES ASSUME NEW r \in outbox'
                 PROVE  r.id \in 1..Len(enqueued') /\ r.env = enqueued'[r.id]
    BY DEF RowsOK
  <2>2. CASE r \in outbox
    BY <1>2, <1>3, <2>2 DEF RowsOK
  <2>3. ASSUME NEW i \in 1..k, r = [id |-> lastId + i, env |-> envs[i]]
        PROVE  r.id \in 1..Len(enqueued') /\ r.env = enqueued'[r.id]
    BY <1>2, <1>3, <2>3
  <2> QED BY <1>1, <2>2, <2>3
<1>8. \A i \in 1..k : \E s \in outbox' : s.id = Len(enqueued) + i
  <2>1. SUFFICES ASSUME NEW i \in 1..k
                 PROVE  \E s \in outbox' : s.id = Len(enqueued) + i
    OBVIOUS
  <2>2. [id |-> lastId + i, env |-> envs[i]] \in outbox'
    BY <1>1
  <2> QED BY <1>2, <2>2
<1>9. Contiguous'
  <2>1. SUFFICES ASSUME NEW r \in outbox', NEW n \in 1..Len(enqueued'), r.id <= n
                 PROVE  \E s \in outbox' : s.id = n
    BY DEF Contiguous
  <2>2. CASE n \in 1..Len(enqueued)
    <3>1. r \in outbox
      <4>1. SUFFICES ASSUME NEW i \in 1..k, r = [id |-> lastId + i, env |-> envs[i]]
                     PROVE  FALSE
        BY <1>1
      <4> QED BY <1>2, <2>1, <2>2, <4>1
    <3> QED BY <1>1, <2>1, <2>2, <3>1 DEF Contiguous
  <2>3. CASE \E i \in 1..k : n = Len(enqueued) + i
    BY <1>8, <2>3
  <2> QED BY <1>5, <2>2, <2>3
<1>10. RemovedApplied'
  <2>1. SUFFICES ASSUME NEW n \in 1..Len(enqueued'), \A r \in outbox' : r.id # n
                 PROVE  n <= Len(applied')
    BY DEF RemovedApplied
  <2>2. n \in 1..Len(enqueued)
    BY <1>5, <1>8, <2>1
  <2>3. \A r \in outbox : r.id # n
    BY <1>1, <2>1
  <2> QED BY <1>4, <2>2, <2>3 DEF RemovedApplied
<1>11. AppliedOK'
  BY <1>2, <1>3, <1>4 DEF AppliedOK
<1>12. ReceiptsOK'
  BY <1>4 DEF ReceiptsOK
<1>13. HandlersOK'
  <2>1. SUFFICES ASSUME NEW c \in Conns, handler[c].stage # "idle"
                 PROVE  \E n \in 1..Len(enqueued') :
                          n <= Len(applied) + 1 /\ handler[c].env = enqueued'[n]
    BY <1>4 DEF HandlersOK
  <2>2. PICK n \in 1..Len(enqueued) :
          n <= Len(applied) + 1 /\ handler[c].env = enqueued[n]
    BY <2>1 DEF HandlersOK
  <2> QED BY <1>2, <1>3, <2>2
<1> QED BY <1>6, <1>7, <1>9, <1>10, <1>11, <1>12, <1>13

\* A posted envelope is the head, so all before it have been applied
\* (uploadOldest reads the head with PeekBatch).
LEMMA InvPost ==
    ASSUME TypeOK, DeliveryInv, NEW u \in Uploaders, Post(u)
    PROVE  DeliveryInv'
<1> USE DEF DeliveryInv
<1>1. PICK r \in outbox, c \in Conns : Oldest(r) /\ Receive(c, r.env)
  BY DEF Post
<1>2. UNCHANGED <<outbox, lastId, lastSequence, enqueued, receipts, applied>>
  BY <1>1 DEF Post, Receive, outboxVars
<1>3. r.id \in 1..Len(enqueued) /\ r.env = enqueued[r.id]
  BY DEF RowsOK
<1>4. r.id <= Len(applied) + 1
  <2>1. Len(applied) \in Nat /\ Len(enqueued) \in Nat
    BY DEF TypeOK, OutboxTypeOK, HubTypeOK
  <2>2. CASE r.id = 1
    BY <2>1, <2>2
  <2>3. CASE r.id # 1
    <3>1. r.id - 1 \in 1..Len(enqueued)
      BY <1>3, <2>1, <2>3
    <3>2. \A s \in outbox : s.id # r.id - 1
      <4>1. SUFFICES ASSUME NEW s \in outbox, s.id = r.id - 1 PROVE FALSE
        OBVIOUS
      <4> QED BY <1>1, <1>3, <2>1, <4>1 DEF Oldest
    <3> QED BY <1>3, <2>1, <3>1, <3>2 DEF RemovedApplied
  <2> QED BY <2>2, <2>3
<1>5. handler' = [handler EXCEPT
            ![c] = [stage |-> "received", env |-> r.env, ack |-> NoAck]]
  BY <1>1 DEF Receive
<1>6. HandlersOK'
  <2>1. ASSUME NEW d \in Conns, d # c PROVE handler'[d] = handler[d]
    BY <1>5, <2>1
  <2>2. handler'[c] = [stage |-> "received", env |-> r.env, ack |-> NoAck]
    BY <1>5 DEF TypeOK, HubTypeOK
  <2>3. handler'[c].stage = "received" /\ handler'[c].env = r.env
    BY <2>2
  <2> QED BY <1>2, <1>3, <1>4, <2>1, <2>3 DEF HandlersOK
<1> QED
  BY <1>2, <1>6 DEF EnqueuedOK, RowsOK, Contiguous, RemovedApplied,
                    AppliedOK, ReceiptsOK

\* Only the head is removed, and only on the receipt of the head itself, so
\* its payload has been applied (Acknowledge).
LEMMA InvReadAnswer ==
    ASSUME TypeOK, DeliveryInv, NEW u \in Uploaders, ReadAnswer(u)
    PROVE  DeliveryInv'
<1> USE DEF DeliveryInv
<1>0. /\ UNCHANGED <<lastId, lastSequence, enqueued, receipts, applied>>
      /\ Len(applied) \in Nat /\ Len(enqueued) \in Nat
  BY DEF ReadAnswer, Acknowledge, Close, TypeOK, OutboxTypeOK, HubTypeOK
<1>1. conn[u] \in Conns
  BY ConnAssumption DEF ReadAnswer, TypeOK
<1> DEFINE ack == handler[conn[u]].ack
<1>2. ack \in receipts
  BY <1>1 DEF ReadAnswer, HandlersOK
<1>3. outbox' = outbox \ {r \in outbox : Oldest(r) /\ Matches(ack, r.env)}
  BY DEF ReadAnswer, Acknowledge
<1>4. PICK i \in 1..Len(applied) : ack = AckFor(applied[i])
  BY <1>2 DEF ReceiptsOK
<1>5. ack.batch = enqueued[i].batch /\ i \in 1..Len(enqueued)
  <2>1. applied[i] = enqueued[i] /\ i \in 1..Len(enqueued)
    BY <1>0 DEF AppliedOK
  <2> QED BY <1>4, <2>1 DEF AckFor
<1>6. ASSUME NEW r \in outbox, r \notin outbox'
      PROVE  Oldest(r) /\ r.id <= Len(applied)
  <2>1. Oldest(r) /\ Matches(ack, r.env)
    BY <1>3, <1>6
  <2>2. enqueued[r.id].batch = enqueued[i].batch
    BY <1>5, <2>1 DEF Matches, RowsOK
  <2>3. r.id = i
    BY <1>5, <2>2 DEF EnqueuedOK, RowsOK
  <2> QED BY <1>0, <2>1, <2>3
<1>7. outbox' \subseteq outbox
  BY <1>3
<1>8. RowsOK' /\ EnqueuedOK' /\ AppliedOK' /\ ReceiptsOK'
  BY <1>0, <1>7 DEF RowsOK, EnqueuedOK, AppliedOK, ReceiptsOK
<1>9. Contiguous'
  <2>1. SUFFICES ASSUME NEW r \in outbox', NEW n \in 1..Len(enqueued), r.id <= n
                 PROVE  \E s \in outbox' : s.id = n
    BY <1>0 DEF Contiguous
  <2>2. PICK s \in outbox : s.id = n
    BY <1>7, <2>1 DEF Contiguous
  <2>3. CASE s \in outbox'
    BY <2>2, <2>3
  <2>4. CASE s \notin outbox'
    <3>1. Oldest(s) /\ s.id <= r.id
      BY <1>6, <1>7, <2>4 DEF Oldest
    <3>2. r.id \in 1..Len(enqueued) /\ s.id \in 1..Len(enqueued)
      BY <1>7 DEF RowsOK
    <3>3. r.id = n
      BY <1>0, <2>1, <2>2, <3>1, <3>2
    <3> QED BY <3>3
  <2> QED BY <2>3, <2>4
<1>10. RemovedApplied'
  <2>1. SUFFICES ASSUME NEW n \in 1..Len(enqueued), \A r \in outbox' : r.id # n
                 PROVE  n <= Len(applied)
    BY <1>0 DEF RemovedApplied
  <2>2. CASE \A r \in outbox : r.id # n
    BY <2>2 DEF RemovedApplied
  <2>3. CASE \E r \in outbox : r.id = n
    BY <1>6, <2>1, <2>3
  <2> QED BY <2>2, <2>3
<1>11. HandlersOK'
  BY <1>0, <1>1 DEF ReadAnswer, Close, Idle, HandlersOK, TypeOK, HubTypeOK
<1> QED BY <1>8, <1>9, <1>10, <1>11

\* A handler applies an envelope without a receipt only when it is the next
\* one: it is at most one ahead, and those before it have receipts
\* (ApplyIngestV2).
LEMMA InvApplyNew ==
    ASSUME TypeOK, DeliveryInv, NEW c \in Conns, ApplyNew(c),
           UNCHANGED <<outboxVars, conn>>
    PROVE  DeliveryInv'
<1> USE DEF DeliveryInv
<1> DEFINE env == handler[c].env
<1>0. UNCHANGED <<outbox, lastId, lastSequence, enqueued>>
  BY DEF outboxVars
<1>1. PICK n \in 1..Len(enqueued) : n <= Len(applied) + 1 /\ env = enqueued[n]
  BY DEF ApplyNew, HandlersOK
<1>2. /\ applied \in Seq(Envelope) /\ enqueued \in Seq(Envelope)
      /\ Len(applied) \in Nat /\ Len(enqueued) \in Nat /\ env \in Envelope
  BY <1>1 DEF TypeOK, OutboxTypeOK, HubTypeOK
<1>3. n = Len(applied) + 1
  <2>1. SUFFICES ASSUME n \in 1..Len(applied) PROVE FALSE
    BY <1>1, <1>2
  <2>2. AckFor(applied[n]) \in receipts
    BY <2>1 DEF ReceiptsOK
  <2>3. applied[n] = env
    BY <1>1, <2>1 DEF AppliedOK
  <2>4. AckFor(env).batch = env.batch
    BY DEF AckFor
  <2> QED BY <2>2, <2>3, <2>4 DEF ApplyNew
<1>4. /\ Len(applied') = Len(applied) + 1
      /\ \A i \in 1..Len(applied) : applied'[i] = applied[i]
      /\ applied'[Len(applied) + 1] = env
  BY <1>2, AppendProperties DEF ApplyNew
<1>5. AppliedOK'
  BY <1>0, <1>1, <1>2, <1>3, <1>4 DEF AppliedOK
<1>6. ReceiptsOK'
  <2>1. receipts' = receipts \cup {AckFor(env)}
    BY DEF ApplyNew
  <2> QED BY <1>2, <1>4, <2>1, SMTT(30) DEF ReceiptsOK
<1>7. /\ handler' = [handler EXCEPT ![c] =
            [stage |-> "answered", env |-> env, ack |-> AckFor(env)]]
      /\ receipts' = receipts \cup {AckFor(env)}
  BY DEF ApplyNew, Reach
<1>8. HandlersOK'
  <2>1. handler'[c] = [stage |-> "answered", env |-> env, ack |-> AckFor(env)]
    BY <1>7 DEF TypeOK, HubTypeOK
  <2>2. /\ handler'[c].stage = "answered" /\ handler'[c].env = env
        /\ handler'[c].ack = AckFor(env)
    BY <2>1
  <2>3. ASSUME NEW d \in Conns, d # c PROVE handler'[d] = handler[d]
    BY <1>7, <2>3
  <2>4. ASSUME NEW d \in Conns, handler'[d].stage # "idle"
        PROVE  \E m \in 1..Len(enqueued') :
                  m <= Len(applied') + 1 /\ handler'[d].env = enqueued'[m]
    <3>1. CASE d = c
      BY <1>0, <1>1, <1>2, <1>3, <1>4, <2>2, <3>1
    <3>2. CASE d # c
      <4>1. PICK m \in 1..Len(enqueued) :
                  m <= Len(applied) + 1 /\ handler[d].env = enqueued[m]
        BY <2>3, <2>4, <3>2 DEF HandlersOK
      <4> QED BY <1>0, <1>2, <1>4, <2>3, <3>2, <4>1
    <3> QED BY <3>1, <3>2
  <2>5. ASSUME NEW d \in Conns, handler'[d].stage = "answered"
        PROVE  handler'[d].ack = AckFor(handler'[d].env) /\ handler'[d].ack \in receipts'
    <3>1. CASE d = c
      BY <1>7, <2>2, <3>1
    <3>2. CASE d # c
      BY <1>7, <2>3, <2>5, <3>2 DEF HandlersOK
    <3> QED BY <3>1, <3>2
  <2> QED BY <2>4, <2>5 DEF HandlersOK
<1>9. EnqueuedOK' /\ RowsOK' /\ Contiguous'
  BY <1>0 DEF EnqueuedOK, RowsOK, Contiguous
<1>10. RemovedApplied'
  BY <1>0, <1>2, <1>4 DEF RemovedApplied
<1> QED BY <1>5, <1>6, <1>8, <1>9, <1>10

\* The other handler steps change one connection only, keep its envelope or
\* forget it, and answer only with a stored receipt.
LEMMA InvHandler ==
    ASSUME TypeOK, DeliveryInv, NEW c \in Conns,
           Authenticate(c) \/ Replay(c) \/ Fail(c) \/ Close(c),
           UNCHANGED outboxVars
    PROVE  DeliveryInv'
<1> USE DEF DeliveryInv
<1>1. UNCHANGED <<outbox, lastId, lastSequence, enqueued, receipts, applied>>
  BY DEF outboxVars, Authenticate, Replay, Fail, Close
<1>2. HandlersOK'
  <2>1. CASE Authenticate(c) \/ Fail(c)
    <3>1. \/ handler' = [handler EXCEPT ![c] =
                [stage |-> "refused", env |-> handler[c].env, ack |-> NoAck]]
          \/ handler' = [handler EXCEPT ![c] =
                [stage |-> "authenticated", env |-> handler[c].env, ack |-> NoAck]]
      BY <2>1 DEF Authenticate, Fail, Reach
    <3>2. handler[c].stage # "idle"
      BY <2>1 DEF Authenticate, Fail
    <3>3. \A d \in Conns : d # c => handler'[d] = handler[d]
      BY <3>1 DEF TypeOK, HubTypeOK
    <3>4. handler'[c].env = handler[c].env /\ handler'[c].stage # "answered"
      BY <3>1 DEF TypeOK, HubTypeOK
    <3> QED BY <1>1, <3>2, <3>3, <3>4 DEF HandlersOK
  <2>2. CASE Replay(c)
    <3>1. PICK r \in receipts :
            /\ r.batch = handler[c].env.batch
            /\ \/ Reach(c, "answered", r)
               \/ Reach(c, "refused", NoAck)
      BY <2>2 DEF Replay
    <3>2. PICK n \in 1..Len(enqueued) :
            n <= Len(applied) + 1 /\ handler[c].env = enqueued[n]
      BY <2>2 DEF Replay, HandlersOK
    <3>3. PICK i \in 1..Len(applied) : r = AckFor(applied[i])
      BY DEF ReceiptsOK
    <3>4. applied[i] = enqueued[i] /\ i \in 1..Len(enqueued)
      BY DEF AppliedOK, TypeOK, OutboxTypeOK, HubTypeOK
    <3>5. AckFor(applied[i]).batch = enqueued[i].batch
      BY <3>4 DEF AckFor
    <3>6. i = n
      BY <3>1, <3>2, <3>3, <3>4, <3>5 DEF EnqueuedOK
    <3>7. r = AckFor(handler[c].env)
      BY <3>2, <3>3, <3>4, <3>6
    <3>8. CASE Reach(c, "answered", r)
      <4>1. handler' = [handler EXCEPT ![c] =
                [stage |-> "answered", env |-> handler[c].env, ack |-> r]]
        BY <3>8 DEF Reach
      <4>2. handler'[c] = [stage |-> "answered", env |-> handler[c].env, ack |-> r]
        BY <4>1 DEF TypeOK, HubTypeOK
      <4>3. /\ handler'[c].env = handler[c].env
            /\ handler'[c].ack = r
        BY <4>2
      <4>4. \A d \in Conns : d # c => handler'[d] = handler[d]
        BY <4>1
      <4> QED BY <1>1, <3>2, <3>7, <4>3, <4>4 DEF HandlersOK
    <3>9. CASE Reach(c, "refused", NoAck)
      <4>1. handler' = [handler EXCEPT ![c] =
                [stage |-> "refused", env |-> handler[c].env, ack |-> NoAck]]
        BY <3>9 DEF Reach
      <4> QED BY <1>1, <3>2, <4>1 DEF HandlersOK, TypeOK, HubTypeOK
    <3> QED BY <3>1, <3>8, <3>9
  <2>3. CASE Close(c)
    BY <1>1, <2>3 DEF Close, Idle, HandlersOK, TypeOK, HubTypeOK
  <2> QED BY <2>1, <2>2, <2>3
<1> QED
  BY <1>1, <1>2 DEF EnqueuedOK, RowsOK, Contiguous, RemovedApplied,
                    AppliedOK, ReceiptsOK

\* Every step preserves the invariant.
LEMMA InvNext ==
    ASSUME TypeOK, DeliveryInv, [Next]_vars
    PROVE  DeliveryInv'
<1>1. ASSUME NEW u \in Uploaders, ReadRefusal(u) PROVE DeliveryInv'
  <2>1. conn[u] \in Conns
    BY <1>1, ConnAssumption DEF ReadRefusal, TypeOK
  <2> QED BY <1>1, <2>1, InvHandler DEF ReadRefusal
<1>2. ASSUME NEW c \in Conns, HubStep(c) PROVE DeliveryInv'
  BY <1>2, InvHandler, InvApplyNew DEF HubStep, Handle
<1>3. ASSUME UNCHANGED <<outbox, lastId, lastSequence, enqueued,
                         receipts, applied, handler>>
      PROVE  DeliveryInv'
  BY <1>3 DEF DeliveryInv, EnqueuedOK, RowsOK, Contiguous, RemovedApplied,
              AppliedOK, ReceiptsOK, HandlersOK
<1>4. ASSUME NEW u \in Uploaders, Abandon(u) PROVE DeliveryInv'
  BY <1>3, <1>4 DEF Abandon, outboxVars, hub
<1>5. CASE RevokeStep
  BY <1>3, <1>5 DEF RevokeStep, Revoke, outboxVars
<1>6. CASE UNCHANGED vars
  BY <1>3, <1>6 DEF vars, outboxVars, hub
<1> QED
  BY <1>1, <1>2, <1>4, <1>5, <1>6, InvProduce, InvPost, InvReadAnswer
     DEF Next, UploaderStep

-----------------------------------------------------------------------------
(* The theorems.                                                           *)

\* The inductive invariant holds together with the type invariant, which
\* needs it.
THEOREM DeliveryInvariant == Spec => [](TypeOK /\ DeliveryInv)
<1>1. Init => TypeOK /\ DeliveryInv
  BY TypeInit, InvInit
<1>2. TypeOK /\ DeliveryInv /\ [Next]_vars => (TypeOK /\ DeliveryInv)'
  <2> SUFFICES ASSUME TypeOK, DeliveryInv, [Next]_vars
                 PROVE  TypeOK' /\ DeliveryInv'
    OBVIOUS
  <2>2. EnqueuedOK /\ HandlersOK
    BY DEF DeliveryInv
  <2> QED BY <2>2, TypeNext, InvNext
<1> QED BY <1>1, <1>2, PTL DEF Spec

\* Type correctness of the composed system; in particular the sequence
\* counter stays within its width.
THEOREM TypeCorrect == Spec => []TypeOK
BY DeliveryInvariant, PTL

\* The hub applies every batch at most once and in sequence order.
THEOREM InOrderOnce == Spec => []AppliedInOrderOnce
<1>1. TypeOK /\ DeliveryInv => AppliedInOrderOnce
  <2> SUFFICES ASSUME TypeOK, DeliveryInv PROVE AppliedInOrderOnce
    OBVIOUS
  <2>2. DOMAIN applied = 1..Len(applied)
    BY DEF TypeOK, HubTypeOK
  <2> QED BY <2>2 DEF DeliveryInv, AppliedOK, AppliedInOrderOnce
<1> QED BY <1>1, DeliveryInvariant, PTL

\* No batch leaves the outbox before the hub has applied it.
THEOREM NothingLost == Spec => []RemovedOnlyIfApplied
<1>1. TypeOK /\ DeliveryInv => RemovedOnlyIfApplied
  <2> SUFFICES ASSUME TypeOK, DeliveryInv, NEW n \in DOMAIN enqueued
                 PROVE  \/ \E r \in outbox : r.env = enqueued[n]
                        \/ \E i \in DOMAIN applied : applied[i] = enqueued[n]
    BY DEF RemovedOnlyIfApplied
  <2>2. n \in 1..Len(enqueued) /\ DOMAIN applied = 1..Len(applied)
    BY DEF TypeOK, OutboxTypeOK, HubTypeOK
  <2>3. CASE \E r \in outbox : r.id = n
    BY <2>3 DEF DeliveryInv, RowsOK
  <2>4. CASE \A r \in outbox : r.id # n
    <3>1. n \in 1..Len(applied)
      BY <2>2, <2>4 DEF DeliveryInv, RemovedApplied, TypeOK, HubTypeOK
    <3> QED BY <2>2, <3>1 DEF DeliveryInv, AppliedOK
  <2> QED BY <2>3, <2>4
<1> QED BY <1>1, DeliveryInvariant, PTL

\* Insertion order and protocol sequence order never diverge.
THEOREM FifoOrder == Spec => []FifoIsSequenceOrder
<1>1. TypeOK /\ DeliveryInv => FifoIsSequenceOrder
  <2> SUFFICES ASSUME TypeOK, DeliveryInv, NEW r \in outbox, NEW s \in outbox
                 PROVE  /\ r.id < s.id <=> r.env.sequence < s.env.sequence
                        /\ r.env = enqueued[r.env.sequence]
    BY DEF FifoIsSequenceOrder
  <2>2. /\ r.id \in 1..Len(enqueued) /\ r.env = enqueued[r.id]
        /\ s.id \in 1..Len(enqueued) /\ s.env = enqueued[s.id]
    BY DEF DeliveryInv, RowsOK
  <2>3. enqueued[r.id].sequence = r.id /\ enqueued[s.id].sequence = s.id
    BY <2>2 DEF DeliveryInv, EnqueuedOK
  <2> QED BY <2>2, <2>3
<1> QED BY <1>1, DeliveryInvariant, PTL

\* An acknowledgement is the stored receipt of the request it answers.
THEOREM AnswersAreReceipts == Spec => []AnswerIsReceiptOfRequest
<1>1. DeliveryInv => AnswerIsReceiptOfRequest
  BY DEF DeliveryInv, HandlersOK, AnswerIsReceiptOfRequest
<1> QED BY <1>1, DeliveryInvariant, PTL

\* Each step of the composed system is a step of the abstract channel or
\* leaves what was sent and received alone.
LEMMA ChannelStepRefined ==
    ASSUME TypeOK, DeliveryInv, [Next]_vars
    PROVE  [Ledger!ChannelNext]_<<enqueued, applied>>
<1>1. CASE Produce
  <2>1. PICK k \in 1..MaxChunks, envs \in Seq(Envelope) :
             Len(envs) = k /\ enqueued' = enqueued \o envs
    BY <1>1, EnqueueEffect DEF Produce
  <2>2. enqueued \in Seq(Envelope) /\ Len(enqueued) \in Nat /\ k \in Nat \ {0}
    BY OutboxConstants DEF TypeOK, OutboxTypeOK
  <2>3. enqueued' \in Seq(Envelope) /\ Len(enqueued') = Len(enqueued) + k
    <3>1. /\ enqueued \o envs \in Seq(Envelope)
          /\ Len(enqueued \o envs) = Len(enqueued) + Len(envs)
      BY <2>2, ConcatProperties
    <3> QED BY <2>1, <3>1
  <2>4. ASSUME NEW i \in 1..Len(enqueued) PROVE enqueued'[i] = enqueued[i]
    BY <2>1, <2>2
  <2>5. Ledger!Send
    BY <1>1, <2>2, <2>3, <2>4 DEF Ledger!Send, Produce, hub
  <2> QED BY <2>5 DEF Ledger!ChannelNext
<1>2. ASSUME NEW c \in Conns, ApplyNew(c), UNCHANGED outboxVars
      PROVE  Ledger!Deliver
  <2>1. PICK n \in 1..Len(enqueued) :
             n <= Len(applied) + 1 /\ handler[c].env = enqueued[n]
    BY <1>2 DEF ApplyNew, DeliveryInv, HandlersOK
  <2>2. Len(applied) \in Nat /\ Len(enqueued) \in Nat
    BY DEF TypeOK, OutboxTypeOK, HubTypeOK
  <2>3. n = Len(applied) + 1
    <3>1. SUFFICES ASSUME n \in 1..Len(applied) PROVE FALSE
      BY <2>1, <2>2
    <3>2. AckFor(applied[n]) \in receipts
      BY <3>1 DEF DeliveryInv, ReceiptsOK
    <3>3. AckFor(applied[n]).batch = handler[c].env.batch
      BY <2>1, <3>1 DEF DeliveryInv, AppliedOK, AckFor
    <3> QED BY <1>2, <3>2, <3>3 DEF ApplyNew
  <2> QED BY <1>2, <2>1, <2>2, <2>3 DEF ApplyNew, outboxVars, Ledger!Deliver
<1>3. ASSUME NEW c \in Conns, HubStep(c)
      PROVE  Ledger!Deliver \/ UNCHANGED <<enqueued, applied>>
  BY <1>2, <1>3 DEF HubStep, Handle, Authenticate, Replay, Fail, Close, outboxVars
<1>4. ASSUME NEW u \in Uploaders, UploaderStep(u)
      PROVE  UNCHANGED <<enqueued, applied>>
  BY <1>4 DEF UploaderStep, Post, Receive, ReadAnswer, ReadRefusal, Abandon,
              Acknowledge, Close, outboxVars, hub
<1>5. CASE RevokeStep
  BY <1>5 DEF RevokeStep, Revoke, outboxVars
<1>6. CASE UNCHANGED vars
  BY <1>6 DEF vars, outboxVars, hub
<1> QED
  BY <1>1, <1>3, <1>4, <1>5, <1>6 DEF Next, Ledger!ChannelNext

\* Outbox, uploaders and hub together implement an exactly-once, in-order
\* channel, whatever is retried, abandoned, replayed or revoked.
THEOREM Refinement == Spec => RefinesChannel
<1>1. Init => Ledger!ChannelInit
  BY DEF Init, OutboxInit, HubInit, Ledger!ChannelInit
<1>2. TypeOK /\ DeliveryInv /\ [Next]_vars => [Ledger!ChannelNext]_<<enqueued, applied>>
  BY ChannelStepRefined
<1> QED
  BY <1>1, <1>2, DeliveryInvariant, PTL
     DEF Spec, RefinesChannel, Ledger!ChannelSpec, Ledger!channelVars

\* A batch that is no longer queued has been applied, so if the queue drains
\* every batch is applied: OutboxDrains is the stronger promise of the two.
THEOREM DrainingApplies == Spec /\ OutboxDrains => EveryBatchApplied
<1> SUFFICES ASSUME NEW n \in 1..MaxSequence
             PROVE  Spec /\ OutboxDrains =>
                        (n <= Len(enqueued) ~> (n <= Len(applied) \/ revoked # {}))
  BY DEF EveryBatchApplied
<1>1. n \in Nat /\ n >= 1
  BY OutboxConstants
<1>2. TypeOK /\ n <= Len(enqueued) /\ [Next]_vars => (n <= Len(enqueued))'
  <2> SUFFICES ASSUME TypeOK, n <= Len(enqueued), [Next]_vars
               PROVE  n <= Len(enqueued')
    OBVIOUS
  <2>1. enqueued \in Seq(Envelope) /\ Len(enqueued) \in Nat
    BY DEF TypeOK, OutboxTypeOK
  <2>2. CASE Produce
    <3>1. PICK k \in 1..MaxChunks, envs \in Seq(Envelope) : enqueued' = enqueued \o envs
      BY <2>2, EnqueueEffect DEF Produce
    <3>2. Len(enqueued') = Len(enqueued) + Len(envs) /\ Len(envs) \in Nat
      BY <2>1, <3>1, ConcatProperties
    <3> QED BY <1>1, <2>1, <3>2
  <2>3. CASE ~Produce
    <3>1. enqueued' = enqueued
      BY <2>3 DEF Next, UploaderStep, HubStep, RevokeStep, Post, ReadAnswer, ReadRefusal,
                  Abandon, Acknowledge, vars, outboxVars
    <3> QED BY <3>1
  <2> QED BY <2>2, <2>3
<1>3. TypeOK /\ DeliveryInv /\ n <= Len(enqueued) /\ outbox = {} => n <= Len(applied)
  <2> SUFFICES ASSUME TypeOK, DeliveryInv, n <= Len(enqueued), outbox = {}
               PROVE  n <= Len(applied)
    OBVIOUS
  <2>1. n \in 1..Len(enqueued)
    BY <1>1 DEF TypeOK, OutboxTypeOK
  <2> QED BY <2>1 DEF DeliveryInv, RemovedApplied
<1>4. outbox = {} \/ outbox # {}
  OBVIOUS
<1> QED
  BY <1>2, <1>3, <1>4, DeliveryInvariant, PTL DEF Spec, OutboxDrains

-----------------------------------------------------------------------------
(* What a push carries.  Repeated ids are collapsed by a loop; kept is its  *)
(* value after each item.                                                  *)

Collapses(kept, items, n) ==
    kept[n] = IF n = 0 THEN <<>> ELSE CollapseStep(kept[n - 1], items[n])

\* The loop ends, whatever it is given.
LEMMA CollapseExists ==
    ASSUME NEW items, NEW N \in Nat
    PROVE  \E f : f = [n \in 0..N |-> f[n]] /\ \A n \in 0..N : Collapses(f, items, n)
  <1> DEFINE Looped(f, k) == f = [n \in 0..k |-> f[n]]
                                /\ \A n \in 0..k : Collapses(f, items, n)
             without == {k \in Nat : ~ \E f : Looped(f, k)}
  <1>1. SUFFICES ASSUME without # {} PROVE FALSE
    OBVIOUS
  <1>2. PICK k \in without : \A n \in without : k <= n
    <2>1. without \in SUBSET Nat
      OBVIOUS
    <2> HIDE DEF without
    <2> QED BY <1>1, <2>1, LeastNatural
  <1>3. CASE k = 0
    <2> DEFINE f == [n \in 0..0 |-> <<>>]
    <2>1. Looped(f, 0)
      BY DEF Collapses
    <2> QED BY <1>2, <1>3, <2>1
  <1>4. CASE k # 0
    <2>1. k - 1 \in Nat /\ k - 1 \notin without
      BY <1>2, <1>4
    <2>2. PICK g : Looped(g, k - 1)
      BY <2>1
    <2> DEFINE f == [n \in 0..k |->
                        IF n = k THEN CollapseStep(g[k - 1], items[k]) ELSE g[n]]
    <2>3. ASSUME NEW n \in 0..k PROVE Collapses(f, items, n)
      <3>1. CASE n = k
        BY <1>4, <2>1, <3>1 DEF Collapses
      <3>2. CASE n # k
        <4>1. n \in 0..(k - 1) /\ (n # 0 => n - 1 \in 0..(k - 1))
          BY <3>2
        <4>2. f[n] = g[n] /\ (n # 0 => f[n - 1] = g[n - 1])
          BY <4>1
        <4>3. Collapses(g, items, n)
          BY <2>2, <4>1
        <4> HIDE DEF f
        <4> QED BY <4>2, <4>3 DEF Collapses
      <3> QED BY <3>1, <3>2
    <2>4. Looped(f, k)
      BY <2>3
    <2> QED BY <1>2, <2>4
  <1> QED BY <1>3, <1>4

\* CollapseRepeatedEventIDs is where the loop ends.
LEMMA CollapseLoops ==
    ASSUME NEW T, NEW items \in Seq(T)
    PROVE  \E f : /\ CollapseRepeatedEventIDs(items) = f[Len(items)]
                  /\ \A n \in 0..Len(items) : Collapses(f, items, n)
  <1> DEFINE IsLoop(f) == f = [n \in 0..Len(items) |->
                IF n = 0 THEN <<>> ELSE CollapseStep(f[n - 1], items[n])]
             kept == CHOOSE f : IsLoop(f)
  <1>1. CollapseRepeatedEventIDs(items) = kept[Len(items)]
    BY DEF CollapseRepeatedEventIDs
  <1>2. PICK f : /\ f = [n \in 0..Len(items) |-> f[n]]
                 /\ \A n \in 0..Len(items) : Collapses(f, items, n)
    <2>1. Len(items) \in Nat
      OBVIOUS
    <2> QED BY <2>1, CollapseExists
  <1>3. IsLoop(f)
    BY <1>2 DEF Collapses
  <1>4. IsLoop(kept)
    BY <1>3
  <1>5. \A n \in 0..Len(items) : Collapses(kept, items, n)
    <2> HIDE DEF kept
    <2> QED BY <1>4 DEF Collapses
  <1> QED BY <1>1, <1>5

\* What the loop has kept of the first n items: the first observation of each
\* id, once, in the order in which the ids first appear.
Firsts(T, items, n, kept) ==
    /\ kept \in Seq(T)
    /\ \A i, j \in DOMAIN kept : kept[i].id = kept[j].id => i = j
    /\ \A j \in 1..n : \E i \in DOMAIN kept : kept[i].id = items[j].id
    /\ \A i \in DOMAIN kept : \E j \in 1..n :
            /\ kept[i] = items[j]
            /\ \A h \in 1..(j - 1) : items[h].id # items[j].id
    /\ \A i, j \in DOMAIN kept : i < j =>
            \E h \in 1..n : /\ items[h].id = kept[i].id
                            /\ \A q \in 1..h : items[q].id # kept[j].id

\* Every item keeps the invariant of the loop.
LEMMA CollapseGoesOn ==
    ASSUME NEW T, NEW items \in Seq(T), NEW n \in 1..Len(items),
           NEW kept, Firsts(T, items, n - 1, kept)
    PROVE  Firsts(T, items, n, CollapseStep(kept, items[n]))
  <1> DEFINE next == CollapseStep(kept, items[n])
             item == items[n]
  <1>1. /\ kept \in Seq(T) /\ Len(kept) \in Nat /\ DOMAIN kept = 1..Len(kept)
        /\ item \in T /\ n \in Nat
        /\ \A j \in 1..n : j = n \/ j \in 1..(n - 1)
        /\ \A j \in 1..(n - 1) : j \in 1..n
    BY DEF Firsts
  <1>2. /\ \A i, j \in DOMAIN kept : kept[i].id = kept[j].id => i = j
        /\ \A j \in 1..(n - 1) : \E i \in DOMAIN kept : kept[i].id = items[j].id
        /\ \A i \in DOMAIN kept : \E j \in 1..(n - 1) :
                /\ kept[i] = items[j]
                /\ \A h \in 1..(j - 1) : items[h].id # items[j].id
    BY DEF Firsts
  <1>0. \A i, j \in DOMAIN kept : i < j =>
            \E h \in 1..(n - 1) : /\ items[h].id = kept[i].id
                                  /\ \A q \in 1..h : items[q].id # kept[j].id
    BY DEF Firsts
  <1>3. CASE \E i \in DOMAIN kept : kept[i].id = item.id
    <2>1. next = kept
      BY <1>3 DEF CollapseStep
    <2>2. \A j \in 1..n : \E i \in DOMAIN kept : kept[i].id = items[j].id
      BY <1>1, <1>2, <1>3
    <2>3. \A i \in DOMAIN kept : \E j \in 1..n :
                /\ kept[i] = items[j]
                /\ \A h \in 1..(j - 1) : items[h].id # items[j].id
      BY <1>1, <1>2
    <2>4. \A i, j \in DOMAIN kept : i < j =>
                \E h \in 1..n : /\ items[h].id = kept[i].id
                                /\ \A q \in 1..h : items[q].id # kept[j].id
      BY <1>0, <1>1
    <2> HIDE DEF next, item
    <2> QED BY <1>1, <1>2, <2>1, <2>2, <2>3, <2>4 DEF Firsts, next, item
  <1>4. CASE ~ \E i \in DOMAIN kept : kept[i].id = item.id
    <2> DEFINE m == Len(kept) + 1
    <2>1. next = Append(kept, item)
      BY <1>4 DEF CollapseStep
    <2>2. /\ next \in Seq(T) /\ DOMAIN next = 1..m /\ next[m] = item /\ m \in DOMAIN next
          /\ \A i \in DOMAIN kept : i \in DOMAIN next /\ next[i] = kept[i]
          /\ \A i \in DOMAIN next : i = m \/ i \in DOMAIN kept
      <3> HIDE DEF item, next
      <3> QED BY <1>1, <2>1
    <2>3. \A h \in 1..(n - 1) : items[h].id # item.id
      BY <1>2, <1>4
    <2> HIDE DEF m, next
    <2>4. ASSUME NEW i \in DOMAIN next, NEW j \in DOMAIN next, next[i].id = next[j].id
          PROVE  i = j
      <3>1. CASE i \in DOMAIN kept /\ j \in DOMAIN kept
        BY <1>2, <2>2, <2>4, <3>1
      <3>2. CASE i = m /\ j \in DOMAIN kept
        BY <1>4, <2>2, <2>4, <3>2
      <3>3. CASE i \in DOMAIN kept /\ j = m
        BY <1>4, <2>2, <2>4, <3>3
      <3> QED BY <2>2, <3>1, <3>2, <3>3
    <2>5. ASSUME NEW j \in 1..n PROVE \E i \in DOMAIN next : next[i].id = items[j].id
      <3>1. CASE j = n
        BY <2>2, <3>1
      <3>2. CASE j \in 1..(n - 1)
        <4>1. PICK i \in DOMAIN kept : kept[i].id = items[j].id
          BY <1>2, <3>2
        <4> QED BY <2>2, <4>1
      <3> QED BY <1>1, <3>1, <3>2
    <2>6. ASSUME NEW i \in DOMAIN next
          PROVE  \E j \in 1..n : /\ next[i] = items[j]
                                 /\ \A h \in 1..(j - 1) : items[h].id # items[j].id
      <3>1. CASE i = m
        BY <1>1, <2>2, <2>3, <3>1
      <3>2. CASE i \in DOMAIN kept
        <4>1. PICK j \in 1..(n - 1) : /\ kept[i] = items[j]
                                      /\ \A h \in 1..(j - 1) : items[h].id # items[j].id
          BY <1>2, <3>2
        <4> QED BY <1>1, <2>2, <3>2, <4>1
      <3> QED BY <2>2, <3>1, <3>2
    <2>7. ASSUME NEW i \in DOMAIN next, NEW j \in DOMAIN next, i < j
          PROVE  \E h \in 1..n : /\ items[h].id = next[i].id
                                 /\ \A q \in 1..h : items[q].id # next[j].id
      <3>1. i \in DOMAIN kept
        BY <1>1, <2>2, <2>7 DEF m
      <3>2. CASE j \in DOMAIN kept
        <4>1. PICK h \in 1..(n - 1) : /\ items[h].id = kept[i].id
                                      /\ \A q \in 1..h : items[q].id # kept[j].id
          BY <1>0, <2>7, <3>1, <3>2
        <4> QED BY <1>1, <2>2, <3>1, <3>2, <4>1
      <3>3. CASE j = m
        <4>1. PICK h \in 1..(n - 1) : kept[i] = items[h]
          BY <1>2, <3>1
        <4>2. \A q \in 1..h : q \in 1..(n - 1)
          BY <1>1
        <4> QED BY <1>1, <2>2, <2>3, <3>1, <3>3, <4>1, <4>2
      <3> QED BY <2>2, <3>2, <3>3
    <2> QED BY <2>2, <2>4, <2>5, <2>6, <2>7 DEF Firsts, next
  <1> QED BY <1>3, <1>4

\* One scan legitimately repeats ids, and an envelope that repeats one is
\* refused whole (comment on collapseRepeatedEventIDs): what is left repeats
\* none, is the first observation of each id in the order of the scan, and no
\* id is missing.
THEOREM CollapseKeepsFirsts ==
    ASSUME NEW T, NEW items \in Seq(T)
    PROVE  Firsts(T, items, Len(items), CollapseRepeatedEventIDs(items))
  <1>1. PICK f : /\ CollapseRepeatedEventIDs(items) = f[Len(items)]
                 /\ \A n \in 0..Len(items) : Collapses(f, items, n)
    BY CollapseLoops
  <1> DEFINE bad == {n \in 0..Len(items) : ~Firsts(T, items, n, f[n])}
  <1>2. SUFFICES ASSUME bad # {} PROVE FALSE
    BY <1>1
  <1>3. PICK n \in bad : \A k \in bad : n <= k
    <2>1. bad \in SUBSET Nat
      OBVIOUS
    <2> HIDE DEF bad
    <2> QED BY <1>2, <2>1, LeastNatural
  <1>4. n \in 0..Len(items) /\ ~Firsts(T, items, n, f[n]) /\ Collapses(f, items, n)
    BY <1>1, <1>3
  <1>5. CASE n = 0
    <2>1. f[0] = <<>>
      BY <1>4, <1>5 DEF Collapses
    <2>2. Firsts(T, items, 0, <<>>)
      BY DEF Firsts
    <2> QED BY <1>4, <1>5, <2>1, <2>2
  <1>6. CASE n # 0
    <2>1. n \in 1..Len(items) /\ n - 1 \in 0..Len(items) /\ n - 1 < n
      BY <1>4, <1>6
    <2>2. Firsts(T, items, n - 1, f[n - 1])
      BY <1>3, <2>1
    <2>3. f[n] = CollapseStep(f[n - 1], items[n])
      BY <1>4, <1>6 DEF Collapses
    <2> QED BY <1>4, <2>1, <2>2, <2>3, CollapseGoesOn
  <1> QED BY <1>5, <1>6

-----------------------------------------------------------------------------
(* A batch is halved until its parts fit; split[n] partitions the runs of n *)
(* items.                                                                  *)

\* A run is halved into two shorter ones, so split[n] is about shorter runs.
LEMMA HalvedAgrees ==
    ASSUME NEW T, NEW items \in Seq(T), NEW n \in 0..Len(items),
           NEW f, NEW g, \A k \in 0..(n - 1) : f[k] = g[k]
    PROVE  Halved(items, f, n) = Halved(items, g, n)
  <1> DEFINE run(lo) == SubSeq(items, lo + 1, lo + n)
             middle == n \div 2
  <1>1. ASSUME NEW lo \in 0..(Len(items) - n), ~Fits(run(lo))
        PROVE  f[middle] = g[middle] /\ f[n - middle] = g[n - middle]
    <2>1. Len(run(lo)) = n /\ n \in Nat
      <3>1. Len(items) \in Nat /\ n \in Nat /\ lo \in Nat
        OBVIOUS
      <3>2. lo + 1 \in Nat /\ lo + n \in Nat /\ lo + n <= Len(items) /\ lo + 1 >= 1
        BY <3>1
      <3>3. Len(SubSeq(items, lo + 1, lo + n)) = IF lo + 1 <= lo + n THEN lo + n - (lo + 1) + 1 ELSE 0
        BY <3>1, <3>2
      <3>4. (IF lo + 1 <= lo + n THEN lo + n - (lo + 1) + 1 ELSE 0) = n
        BY <3>1
      <3>5. Len(SubSeq(items, lo + 1, lo + n)) = n
        <4> DEFINE length == Len(SubSeq(items, lo + 1, lo + n))
                   width == IF lo + 1 <= lo + n THEN lo + n - (lo + 1) + 1 ELSE 0
        <4>1. length = width /\ width = n
          BY <3>3, <3>4
        <4> HIDE DEF length, width
        <4>2. length = n
          BY <4>1
        <4> QED BY <4>2 DEF length
      <3> QED BY <3>1, <3>5
    <2>2. n > 1
      BY <1>1, <2>1 DEF Fits
    <2>3. middle \in 0..(n - 1) /\ n - middle \in 0..(n - 1)
      BY <2>1, <2>2
    <2> QED BY <2>3
  <1> QED BY <1>1 DEF Halved

\* The recursion ends, whatever it is given.
LEMMA SplitExists ==
    ASSUME NEW T, NEW items \in Seq(T), NEW N \in 0..Len(items)
    PROVE  \E f : f = [n \in 0..N |-> f[n]] /\ \A n \in 0..N : f[n] = Halved(items, f, n)
  <1> DEFINE Split(f, k) == f = [n \in 0..k |-> f[n]]
                                /\ \A n \in 0..k : f[n] = Halved(items, f, n)
             without == {k \in 0..Len(items) : ~ \E f : Split(f, k)}
  <1>1. SUFFICES ASSUME without # {} PROVE FALSE
    OBVIOUS
  <1>2. PICK k \in without : \A n \in without : k <= n
    <2>1. without \in SUBSET Nat
      OBVIOUS
    <2> HIDE DEF without
    <2> QED BY <1>1, <2>1, LeastNatural
  <1>3. PICK g : k # 0 => Split(g, k - 1)
    <2>1. CASE k # 0
      <3>1. k - 1 \in 0..Len(items) /\ k - 1 \notin without
        BY <1>2, <2>1
      <3> QED BY <3>1
    <2> QED BY <2>1
  <1> DEFINE f == [n \in 0..k |-> IF n = k THEN Halved(items, g, k) ELSE g[n]]
  <1>4. k \in 0..Len(items) /\ k \in Nat
    BY <1>2
  <1>5. ASSUME NEW n \in 0..k PROVE f[n] = Halved(items, f, n)
    <2>1. n \in 0..Len(items) /\ \A j \in 0..(n - 1) : j \in 0..k /\ j # k
      BY <1>4
    <2>2. \A j \in 0..(n - 1) : f[j] = g[j]
      BY <2>1
    <2>3. Halved(items, f, n) = Halved(items, g, n)
      <3> HIDE DEF f
      <3> QED BY <2>1, <2>2, HalvedAgrees
    <2>4. f[n] = Halved(items, g, n)
      <3>1. CASE n = k
        BY <3>1
      <3>2. CASE n # k
        <4>1. n \in 0..(k - 1) /\ k # 0
          BY <1>4, <3>2
        <4>2. f[n] = g[n]
          BY <3>2
        <4> HIDE DEF f
        <4> QED BY <1>3, <4>1, <4>2
      <3> QED BY <3>1, <3>2
    <2> QED BY <2>3, <2>4
  <1>6. f = [n \in 0..k |-> f[n]]
    OBVIOUS
  <1>7. Split(f, k)
    <2> HIDE DEF f
    <2> QED BY <1>5, <1>6
  <1> QED BY <1>2, <1>7

\* PartitionEventEnvelopes is where the recursion ends.
LEMMA PartitionSplits ==
    ASSUME NEW T, NEW items \in Seq(T)
    PROVE  \E f : /\ PartitionEventEnvelopes(items) = f[Len(items)][0]
                  /\ \A n \in 0..Len(items) : f[n] = Halved(items, f, n)
  <1> DEFINE IsSplit(f) == f = [n \in 0..Len(items) |-> Halved(items, f, n)]
             split == CHOOSE f : IsSplit(f)
  <1>1. PartitionEventEnvelopes(items) = split[Len(items)][0]
    BY DEF PartitionEventEnvelopes
  <1>2. PICK f : /\ f = [n \in 0..Len(items) |-> f[n]]
                 /\ \A n \in 0..Len(items) : f[n] = Halved(items, f, n)
    <2>1. Len(items) \in 0..Len(items)
      OBVIOUS
    <2> QED BY <2>1, SplitExists
  <1>3. IsSplit(f)
    BY <1>2
  <1>4. IsSplit(split)
    BY <1>3
  <1>5. \A n \in 0..Len(items) : split[n] = Halved(items, split, n)
    <2> HIDE DEF split
    <2> QED BY <1>4
  <1> QED BY <1>1, <1>5

\* The chunks are the items lo + 1 to hi, cut at the given places: each item
\* is in one chunk, in order, and each chunk fits or cannot be halved.
Cut(items, lo, hi, chunks, cuts) ==
    /\ cuts \in [0..Len(chunks) -> lo..hi]
    /\ cuts[0] = lo /\ cuts[Len(chunks)] = hi
    /\ \A i \in 1..Len(chunks) :
        /\ cuts[i - 1] <= cuts[i]
        /\ lo < hi => cuts[i - 1] < cuts[i]
        /\ chunks[i] = SubSeq(items, cuts[i - 1] + 1, cuts[i])
        /\ Fits(chunks[i])

Parts(T, items, lo, hi, chunks) ==
    /\ chunks \in Seq(Seq(T))
    /\ Len(chunks) >= 1
    /\ \E cuts : Cut(items, lo, hi, chunks, cuts)

\* The parts of the two halves are parts of the whole.
LEMMA PartsJoin ==
    ASSUME NEW T, NEW items, NEW lo \in Nat, NEW mid \in Nat, NEW hi \in Nat,
           lo < mid, mid < hi,
           NEW A, Parts(T, items, lo, mid, A), NEW B, Parts(T, items, mid, hi, B)
    PROVE  Parts(T, items, lo, hi, A \o B)
  <1> DEFINE a == Len(A)
             b == Len(B)
             C == A \o B
  <1>1. PICK p : Cut(items, lo, mid, A, p)
    BY DEF Parts
  <1>2. PICK q : Cut(items, mid, hi, B, q)
    BY DEF Parts
  <1>3. /\ A \in Seq(Seq(T)) /\ B \in Seq(Seq(T)) /\ a \in Nat /\ b \in Nat
        /\ a >= 1 /\ b >= 1
    BY DEF Parts
  <1>4. /\ C \in Seq(Seq(T)) /\ Len(C) = a + b
        /\ \A i \in 1..(a + b) : C[i] = IF i <= a THEN A[i] ELSE B[i - a]
    BY <1>3, ConcatProperties
  <1> HIDE DEF a, b, C
  <1> DEFINE cuts == [i \in 0..(a + b) |-> IF i <= a THEN p[i] ELSE q[i - a]]
  <1>5. /\ p \in [0..a -> lo..mid] /\ q \in [0..b -> mid..hi]
        /\ p[0] = lo /\ p[a] = mid /\ q[0] = mid /\ q[b] = hi
    BY <1>1, <1>2 DEF Cut, a, b
  <1>6. cuts \in [0..(a + b) -> lo..hi]
    <2> SUFFICES ASSUME NEW i \in 0..(a + b)
                 PROVE  (IF i <= a THEN p[i] ELSE q[i - a]) \in lo..hi
      OBVIOUS
    <2>1. CASE i <= a
      <3>1. i \in 0..a
        BY <1>3, <2>1
      <3>2. p[i] \in lo..mid
        BY <1>5, <3>1
      <3> QED BY <2>1, <3>2
    <2>2. CASE ~(i <= a)
      <3>1. i - a \in 0..b
        BY <1>3, <2>2
      <3>2. q[i - a] \in mid..hi
        BY <1>5, <3>1
      <3> QED BY <2>2, <3>2
    <2> QED BY <2>1, <2>2
  <1>7. cuts[0] = lo /\ cuts[a + b] = hi
    <2>1. 0 \in 0..(a + b) /\ a + b \in 0..(a + b) /\ 0 <= a /\ ~(a + b <= a) /\ (a + b) - a = b
      BY <1>3
    <2> QED BY <1>5, <2>1
  <1>8. ASSUME NEW i \in 1..(a + b)
        PROVE  /\ cuts[i - 1] < cuts[i]
               /\ C[i] = SubSeq(items, cuts[i - 1] + 1, cuts[i])
               /\ Fits(C[i])
    <2>0. i \in 0..(a + b) /\ i - 1 \in 0..(a + b)
      BY <1>3
    <2>1. CASE i <= a
      <3>1. i \in 1..a /\ i - 1 <= a
        BY <1>3, <2>1
      <3>2. cuts[i] = p[i] /\ cuts[i - 1] = p[i - 1] /\ C[i] = A[i]
        BY <1>4, <2>0, <2>1, <3>1
      <3>3. p[i - 1] < p[i] /\ A[i] = SubSeq(items, p[i - 1] + 1, p[i]) /\ Fits(A[i])
        BY <1>1, <3>1 DEF Cut, a
      <3> HIDE DEF cuts
      <3> QED BY <3>2, <3>3
    <2>2. CASE ~(i <= a)
      <3>1. i - a \in 1..b /\ (i - a) - 1 \in 0..b /\ (i - 1) - a = (i - a) - 1
        BY <1>3, <2>2
      <3>2. cuts[i] = q[i - a] /\ C[i] = B[i - a]
        BY <1>4, <2>0, <2>2
      <3>3. cuts[i - 1] = q[(i - a) - 1]
        <4>1. CASE i - 1 <= a
          <5>1. i - 1 = a /\ (i - a) - 1 = 0
            BY <1>3, <2>2, <4>1
          <5> QED BY <1>5, <2>0, <4>1, <5>1
        <4>2. CASE ~(i - 1 <= a)
          BY <2>0, <3>1, <4>2
        <4> QED BY <4>1, <4>2
      <3>4. /\ q[(i - a) - 1] < q[i - a]
            /\ B[i - a] = SubSeq(items, q[(i - a) - 1] + 1, q[i - a]) /\ Fits(B[i - a])
        BY <1>2, <3>1 DEF Cut, b
      <3> HIDE DEF cuts
      <3> QED BY <3>2, <3>3, <3>4
    <2> QED BY <2>1, <2>2
  <1>9. Cut(items, lo, hi, C, cuts)
    <2>1. \A i \in 1..(a + b) : cuts[i - 1] \in Nat /\ cuts[i] \in Nat
      <3> SUFFICES ASSUME NEW i \in 1..(a + b) PROVE cuts[i - 1] \in Nat /\ cuts[i] \in Nat
        OBVIOUS
      <3>1. i - 1 \in 0..(a + b) /\ i \in 0..(a + b)
        BY <1>3
      <3> HIDE DEF cuts
      <3> QED BY <1>6, <3>1
    <2> HIDE DEF cuts
    <2>2. ASSUME NEW i \in 1..Len(C)
          PROVE  /\ cuts[i - 1] <= cuts[i] /\ cuts[i - 1] < cuts[i]
                 /\ C[i] = SubSeq(items, cuts[i - 1] + 1, cuts[i])
                 /\ Fits(C[i])
      <3>1. i \in 1..(a + b)
        BY <1>4
      <3>2. cuts[i - 1] <= cuts[i]
        BY <1>8, <2>1, <3>1
      <3> QED BY <1>8, <3>1, <3>2
    <2>3. cuts \in [0..Len(C) -> lo..hi] /\ cuts[0] = lo /\ cuts[Len(C)] = hi
      BY <1>4, <1>6, <1>7
    <2> QED BY <2>2, <2>3 DEF Cut
  <1>10. Len(C) >= 1
    BY <1>3, <1>4
  <1>11. Parts(T, items, lo, hi, C)
    <2> HIDE DEF cuts
    <2> QED BY <1>4, <1>9, <1>10 DEF Parts
  <1> QED BY <1>11 DEF C

\* Every run of items is cut into such parts.
LEMMA RunsArePartitioned ==
    ASSUME NEW T, NEW items \in Seq(T), NEW f,
           \A n \in 0..Len(items) : f[n] = Halved(items, f, n)
    PROVE  \A n \in 0..Len(items) : \A lo \in 0..(Len(items) - n) :
                Parts(T, items, lo, lo + n, f[n][lo])
  <1> DEFINE bad == {n \in 0..Len(items) : \E lo \in 0..(Len(items) - n) :
                                                ~Parts(T, items, lo, lo + n, f[n][lo])}
  <1>1. SUFFICES ASSUME bad # {} PROVE FALSE
    OBVIOUS
  <1>2. PICK n \in bad : \A k \in bad : n <= k
    <2>1. bad \in SUBSET Nat
      OBVIOUS
    <2> HIDE DEF bad
    <2> QED BY <1>1, <2>1, LeastNatural
  <1>3. PICK lo \in 0..(Len(items) - n) : ~Parts(T, items, lo, lo + n, f[n][lo])
    BY <1>2
  <1> DEFINE run == SubSeq(items, lo + 1, lo + n)
             m == n \div 2
  <1>4. /\ n \in 0..Len(items) /\ n \in Nat /\ lo \in Nat /\ Len(items) \in Nat
        /\ lo + n <= Len(items)
    BY <1>2, <1>3
  <1>5. run \in Seq(T) /\ Len(run) = n
    <2>1. /\ lo + 1 \in 1..(Len(items) + 1) /\ lo + n \in 0..Len(items)
          /\ lo + n - (lo + 1) + 1 = n
      BY <1>4
    <2>2. run \in Seq(T)
      BY <2>1, SubSeqProperties
    <2>3. Len(run) = IF lo + 1 <= lo + n THEN lo + n - (lo + 1) + 1 ELSE 0
      BY <1>4, <2>1
    <2> HIDE DEF run
    <2> QED BY <1>4, <2>1, <2>2, <2>3
  <1>6. f[n][lo] = IF Fits(run) THEN <<run>> ELSE f[m][lo] \o f[n - m][lo + m]
    BY <1>3, <1>4 DEF Halved
  <1>7. CASE Fits(run)
    <2> DEFINE cuts == [i \in 0..1 |-> IF i = 0 THEN lo ELSE lo + n]
               C == <<run>>
    <2>1. C \in Seq(Seq(T)) /\ Len(C) = 1 /\ C[1] = run
      BY <1>5
    <2>2. cuts \in [0..1 -> lo..(lo + n)] /\ cuts[0] = lo /\ cuts[1] = lo + n
      BY <1>4
    <2>3. \A i \in 1..1 : i = 1 /\ i - 1 = 0
      OBVIOUS
    <2>4. lo <= lo + n /\ (lo < lo + n => lo < lo + n)
      BY <1>4
    <2>5. Cut(items, lo, lo + n, C, cuts)
      <3>1. \A i \in 1..1 : C[i] = run /\ cuts[i - 1] = lo /\ cuts[i] = lo + n
        <4> HIDE DEF C, cuts, run
        <4> QED BY <2>1, <2>2, <2>3
      <3>2. \A i \in 1..1 : C[i] = SubSeq(items, cuts[i - 1] + 1, cuts[i])
        <4>1. run = SubSeq(items, lo + 1, lo + n)
          OBVIOUS
        <4> HIDE DEF C, cuts, run
        <4> QED BY <3>1, <4>1
      <3> HIDE DEF C, cuts, run
      <3> QED BY <1>7, <2>1, <2>2, <2>4, <3>1, <3>2 DEF Cut
    <2>6. Parts(T, items, lo, lo + n, C)
      <3> HIDE DEF C, cuts
      <3> QED BY <2>1, <2>5 DEF Parts
    <2> QED BY <1>3, <1>6, <1>7, <2>6
  <1>8. CASE ~Fits(run)
    <2>1. n > 1
      BY <1>4, <1>5, <1>8 DEF Fits
    <2>2. m \in Nat /\ 0 < m /\ m < n
      BY <1>4, <2>1
    <2> HIDE DEF m
    <2>3. /\ m \in 0..Len(items) /\ n - m \in 0..Len(items) /\ m < n /\ n - m < n
          /\ lo \in 0..(Len(items) - m) /\ lo + m \in 0..(Len(items) - (n - m))
          /\ lo + m + (n - m) = lo + n
      BY <1>4, <2>2
    <2>4. m \notin bad /\ n - m \notin bad
      <3>1. \A k \in bad : n <= k /\ k \in Nat
        BY <1>2
      <3>2. n - m \in Nat /\ n - m < n
        BY <1>4, <2>2
      <3> HIDE DEF bad
      <3> QED BY <1>4, <2>2, <3>1, <3>2
    <2>5. Parts(T, items, lo, lo + m, f[m][lo])
      BY <2>3, <2>4
    <2>6. Parts(T, items, lo + m, lo + n, f[n - m][lo + m])
      <3>1. Parts(T, items, lo + m, lo + m + (n - m), f[n - m][lo + m])
        BY <2>3, <2>4
      <3> QED BY <2>3, <3>1
    <2>7. /\ lo \in Nat /\ lo + m \in Nat /\ lo + n \in Nat
          /\ lo < lo + m /\ lo + m < lo + n
      BY <1>4, <2>2
    <2>8. Parts(T, items, lo, lo + n, f[m][lo] \o f[n - m][lo + m])
      BY <2>5, <2>6, <2>7, PartsJoin
    <2> QED BY <1>3, <1>6, <1>8, <2>8
  <1> QED BY <1>7, <1>8

\* However a batch has to be halved, the envelopes carry its items, each one
\* once and in order, and each fits or holds a single item (the push
\* then fails with ErrEnvelopeTooLarge): partitionEventEnvelopes drops nothing.
THEOREM PartitionIsExact ==
    ASSUME NEW T, NEW items \in Seq(T)
    PROVE  Parts(T, items, 0, Len(items), PartitionEventEnvelopes(items))
  <1>1. PICK f : /\ PartitionEventEnvelopes(items) = f[Len(items)][0]
                 /\ \A n \in 0..Len(items) : f[n] = Halved(items, f, n)
    BY PartitionSplits
  <1>2. Len(items) \in 0..Len(items) /\ 0 \in 0..(Len(items) - Len(items)) /\ 0 + Len(items) = Len(items)
    OBVIOUS
  <1>3. Parts(T, items, 0, 0 + Len(items), f[Len(items)][0])
    BY <1>1, <1>2, RunsArePartitioned
  <1> QED BY <1>1, <1>2, <1>3

\* No item is left out.
LEMMA PartsCover ==
    ASSUME NEW T, NEW items \in Seq(T), NEW chunks,
           Parts(T, items, 0, Len(items), chunks), NEW p \in 1..Len(items)
    PROVE  \E i \in 1..Len(chunks) : items[p] \in ToSet(chunks[i])
  <1>1. PICK cuts : Cut(items, 0, Len(items), chunks, cuts)
    BY DEF Parts
  <1>2. Len(chunks) \in Nat /\ Len(chunks) >= 1 /\ Len(items) \in Nat
    BY DEF Parts
  <1>3. /\ cuts \in [0..Len(chunks) -> 0..Len(items)]
        /\ cuts[0] = 0 /\ cuts[Len(chunks)] = Len(items)
    BY <1>1 DEF Cut
  <1> DEFINE S == {i \in 1..Len(chunks) : p <= cuts[i]}
  <1>4. PICK i \in S : \A j \in S : i <= j
    <2>1. Len(chunks) \in S
      BY <1>2, <1>3
    <2>2. S \in SUBSET Nat
      OBVIOUS
    <2> HIDE DEF S
    <2> QED BY <2>1, <2>2, LeastNatural
  <1>5. i \in 1..Len(chunks) /\ i - 1 \in 0..Len(chunks) /\ p <= cuts[i]
    BY <1>2, <1>4
  <1>6. cuts[i - 1] < p
    <2>1. CASE i = 1
      BY <1>3, <2>1
    <2>2. CASE i # 1
      <3>1. i - 1 \in 1..Len(chunks) /\ i - 1 < i /\ i \in Nat
        BY <1>5, <2>2
      <3>2. i - 1 \notin S
        <4> HIDE DEF S
        <4> QED BY <1>4, <3>1
      <3>3. cuts[i - 1] \in 0..Len(items)
        BY <1>3, <1>5
      <3> QED BY <3>1, <3>2, <3>3
    <2> QED BY <2>1, <2>2
  <1>7. chunks[i] = SubSeq(items, cuts[i - 1] + 1, cuts[i])
    BY <1>1, <1>5 DEF Cut
  <1>8. PICK c \in 0..Len(items) : c = cuts[i - 1]
    BY <1>3, <1>5
  <1>9. PICK d \in 0..Len(items) : d = cuts[i]
    BY <1>3, <1>5
  <1>10. c < p /\ p <= d /\ c \in Nat /\ d \in Nat /\ p \in Nat
    BY <1>5, <1>6, <1>8, <1>9
  <1>11. DOMAIN SubSeq(items, c + 1, d) = 1..(d - c) /\ SubSeq(items, c + 1, d)[p - c] = items[p]
    <2>1. /\ c + 1 \in 1..(Len(items) + 1) /\ p - c \in 1..(d - (c + 1) + 1)
          /\ c + 1 + (p - c) - 1 = p /\ d - (c + 1) + 1 = d - c /\ c + 1 <= d
      BY <1>2, <1>10
    <2>2. /\ SubSeq(items, c + 1, d) \in Seq(T)
          /\ Len(SubSeq(items, c + 1, d)) = d - c
      BY <1>2, <2>1, SubSeqProperties
    <2>3. \A j \in 1..(d - (c + 1) + 1) : SubSeq(items, c + 1, d)[j] = items[c + 1 + j - 1]
      BY <1>2, <2>1, SubSeqProperties
    <2> QED BY <2>1, <2>2, <2>3
  <1>12. p - c \in 1..(d - c)
    BY <1>10
  <1>13. items[p] \in ToSet(SubSeq(items, c + 1, d))
    BY <1>11, <1>12 DEF ToSet
  <1> QED BY <1>5, <1>7, <1>8, <1>9, <1>13

-----------------------------------------------------------------------------
(* The agent.  AgentTypes says what the sources hold, and is all that the   *)
(* refinement of Delivery needs; RingOK ties the ring to what was emitted,  *)
(* by position; LossOK says that without an outage nothing waits in the     *)
(* ring, provided that the proxy and the envelope use one identity.        *)

Observed == {Observation(call) : call \in Calls}

AgentTypes ==
    /\ world \in Worlds
    /\ pc \in {"scan", "procs", "quota"}
    /\ pc = "procs" => ~IsV2
    /\ ring \in Seq(Observed) /\ Len(ring) <= RingCap
    /\ pending \subseteq observed /\ observed \subseteq Calls
    /\ ~world.proxy => observed = {}
    /\ emitted \in Seq(Calls)
    /\ clock \in Nat \ {0}
    /\ capture \in 0..world.until
    /\ lastObserved \in Nat

RingOK ==
    /\ Len(ring) <= Len(emitted)
    /\ \A i \in 1..Len(ring) :
            ring[i] = Observation(emitted[Len(emitted) - Len(ring) + i])
    /\ \A n \in 1..Len(emitted) : n > Len(emitted) - RingCap =>
            \/ n > Len(emitted) - Len(ring)
            \/ Observation(emitted[n]) \in Arrived

OneIdentity == IsV2 /\ world.proxy => DeviceName = Device

LossOK ==
    OneIdentity /\ ~outage =>
        /\ ring = <<>>
        /\ \A call \in observed : call \in pending \/ Observation(call) \in Arrived
        /\ lastObserved # 0 => Reading(lastObserved) \in Arrived

AgentStep == [AgentNext]_<<vars, agentVars>>

\* A new event goes behind the others, and the oldest one leaves a full ring.
LEMMA NewestIs ==
    ASSUME NEW T, NEW buf \in Seq(T), Len(buf) <= RingCap, NEW e \in T
    PROVE  LET all == Append(buf, e)
               new == Newest(all)
           IN  /\ new \in Seq(T) /\ Len(new) \in 1..RingCap
               /\ Len(new) = Len(buf) + 1 \/ (Len(new) = RingCap /\ Len(buf) = RingCap)
               /\ \A i \in 1..Len(new) : new[i] = all[Len(buf) + 1 - Len(new) + i]
  <1> DEFINE all == Append(buf, e)
             new == Newest(all)
             n == Len(buf) + 1
  <1>1. RingCap \in Nat /\ RingCap >= 1 /\ Len(buf) \in Nat /\ n \in Nat
    BY AgentConstants
  <1>2. all \in Seq(T) /\ Len(all) = n /\ \A i \in 1..n : all[i] \in T
    OBVIOUS
  <1> HIDE DEF all
  <1>3. CASE n > RingCap
    <2>1. n = RingCap + 1 /\ n - RingCap + 1 = 2 /\ Len(buf) = RingCap
      BY <1>1, <1>3
    <2>2. new = SubSeq(all, n - RingCap + 1, n)
      BY <1>2, <1>3 DEF Newest
    <2>3. new = SubSeq(all, 2, n)
      BY <2>1, <2>2
    <2> HIDE DEF new, n
    <2>4. /\ SubSeq(all, 2, n) \in Seq(T)
          /\ Len(SubSeq(all, 2, n)) = IF 2 <= n THEN n - 2 + 1 ELSE 0
          /\ \A i \in 1..(n - 2 + 1) : SubSeq(all, 2, n)[i] = all[2 + i - 1]
      <3>1. 2 \in Int /\ n \in Int /\ \A i \in 2..n : all[i] \in T
        BY <1>1, <1>2
      <3> QED BY <3>1, SubSeqProperties
    <2>5. new \in Seq(T) /\ Len(new) = RingCap /\ \A i \in 1..RingCap : new[i] = all[2 + i - 1]
      BY <1>1, <2>1, <2>3, <2>4
    <2>6. \A i \in 1..RingCap : 2 + i - 1 = n - RingCap + i
      BY <1>1, <2>1
    <2> QED BY <1>1, <2>1, <2>5, <2>6 DEF new, n, all
  <1>4. CASE ~(n > RingCap)
    <2>1. new = all
      BY <1>2, <1>4 DEF Newest
    <2>2. \A i \in 1..n : n - n + i = i
      BY <1>1
    <2>3. n \in 1..RingCap
      BY <1>1, <1>4
    <2> HIDE DEF new
    <2> QED BY <1>1, <1>2, <2>1, <2>2, <2>3 DEF new, all
  <1> QED BY <1>3, <1>4

\* Initially the sources hold nothing.
LEMMA AgentTypesInit == AgentInit => AgentTypes
  <1> SUFFICES ASSUME AgentInit PROVE AgentTypes
    OBVIOUS
  <1>1. world.until \in Nat
    BY AgentConstants DEF AgentInit
  <1>2. RingCap \in Nat
    BY AgentConstants
  <1> QED BY <1>1, <1>2 DEF AgentInit, AgentTypes

\* Every step of a source keeps what the sources hold within its types.
LEMMA AgentTypesStep ==
    ASSUME AgentTypes, AgentStep
    PROVE  AgentTypes'
  <1> USE DEF AgentTypes
  <1>0. ASSUME world' = world PROVE IsV2' = IsV2
    BY <1>0 DEF IsV2
  <1>w. world.until \in Nat /\ world.proxy \in BOOLEAN
    BY AgentConstants
  <1>1. CASE ScanOnce
    BY <1>0, <1>1 DEF ScanOnce, AfterScan, Nothing, Push, proxyVars, quotaVars, Observed, Observation
  <1>2. CASE ReportProcs
    BY <1>0, <1>2 DEF ReportProcs, Nothing, Push, proxyVars, quotaVars, Observed, Observation
  <1>3. CASE CollectStatusQuota
    BY <1>0, <1>3, <1>w DEF CollectStatusQuota, Nothing, Push, proxyVars, Observed, Observation
  <1>4. ASSUME NEW call \in Calls, ServeHTTP(call) PROVE AgentTypes'
    BY <1>0, <1>4 DEF ServeHTTP, Nothing, quotaVars, Observed, Observation
  <1>5. ASSUME NEW call \in Calls, Emit(call) PROVE AgentTypes'
    <2> DEFINE buf == Newest(Append(ring, Observation(call)))
    <2>1. buf \in Seq(Observed) /\ Len(buf) <= RingCap
      <3>1. Observation(call) \in Observed /\ RingCap \in Nat
        BY AgentConstants DEF Observed
      <3>2. buf \in Seq(Observed) /\ Len(buf) \in 1..RingCap
        BY <3>1, NewestIs
      <3> HIDE DEF buf
      <3> QED BY <3>1, <3>2
    <2>2. <<>> \in Seq(Observed) /\ Len(<<>>) = 0 /\ RingCap \in Nat
      BY AgentConstants
    <2>3. PICK ok \in BOOLEAN : Push(buf, ok) /\ ring' = Buffered(buf, ok)
      BY <1>5 DEF Emit
    <2> HIDE DEF buf
    <2>4. world' = world
      BY <2>3 DEF Push
    <2>5. ring' \in Seq(Observed) /\ Len(ring') <= RingCap
      BY <2>1, <2>2, <2>3 DEF Buffered
    <2>6. Observed' = Observed
      BY DEF Observed, Observation
    <2>7. /\ pending' = pending \ {call} /\ emitted' = Append(emitted, call)
          /\ UNCHANGED <<pc, observed, quotaVars>>
      BY <1>5 DEF Emit
    <2>8. emitted' \in Seq(Calls)
      BY <2>7
    <2> QED BY <1>0, <2>4, <2>5, <2>6, <2>7, <2>8 DEF quotaVars
  <1>6. CASE CaptureRateLimits
    BY <1>0, <1>6, <1>w DEF CaptureRateLimits, Nothing, proxyVars, Observed, Observation
  <1>7. CASE Tick
    BY <1>0, <1>7 DEF Tick, Nothing, proxyVars, Observed, Observation
  <1>8. CASE Restart
    BY <1>0, <1>8, <1>w, AgentConstants DEF Restart, Observed, Observation
  <1>9. CASE UNCHANGED agentVars
    BY <1>0, <1>9 DEF agentVars, proxyVars, quotaVars, Observed, Observation
  <1> QED BY <1>1, <1>2, <1>3, <1>4, <1>5, <1>6, <1>7, <1>8, <1>9
          DEF AgentStep, AgentNext, Source, Upload

-----------------------------------------------------------------------------
(* Whatever the sources push, the upload path takes a step of its own.     *)

\* Ids filed under a device are a sequence of items.
LEMMA FiledIs ==
    ASSUME NEW S, NEW ids \in Seq(S), NEW device
    PROVE  /\ Filed(ids, device) \in Seq([id : S, device : {device}])
           /\ Len(Filed(ids, device)) = Len(ids)
           /\ \A i \in 1..Len(ids) : /\ Filed(ids, device)[i].id = ids[i]
                                     /\ Filed(ids, device)[i].device = device
  <1>1. Len(ids) \in Nat /\ DOMAIN ids = 1..Len(ids) /\ \A i \in 1..Len(ids) : ids[i] \in S
    OBVIOUS
  <1>2. Filed(ids, device) = [i \in 1..Len(ids) |-> [id |-> ids[i], device |-> device]]
    BY <1>1 DEF Filed
  <1>3. Filed(ids, device) \in [1..Len(ids) -> [id : S, device : {device}]]
    BY <1>1, <1>2
  <1> QED BY <1>1, <1>2, <1>3

\* Whatever is pushed is a sequence of items.
LEMMA PushesAreSequences ==
    ASSUME NEW items \in Pushes
    PROVE  \E T : items \in Seq(T)
  <1>1. CASE \E ids \in ScanBatches : items = Filed(ids, Device)
    <2>1. PICK ids \in ScanBatches : items = Filed(ids, Device)
      BY <1>1
    <2>2. ids \in Seq(ToSet(ids))
      BY AgentConstants
    <2> QED BY <2>1, <2>2, FiledIs
  <1>2. CASE \E t \in Captures : items = <<[id |-> t, device |-> Device]>>
    <2>1. PICK t \in Captures : items = <<[id |-> t, device |-> Device]>>
      BY <1>2
    <2>2. items \in Seq({[id |-> t, device |-> Device]})
      BY <2>1
    <2> QED BY <2>2
  <1>3. CASE \E k \in 1..RingCap : \E calls \in [1..k -> Calls] : items = Filed(calls, DeviceName)
    <2>1. PICK k \in 1..RingCap : \E calls \in [1..k -> Calls] : items = Filed(calls, DeviceName)
      BY <1>3
    <2>2. PICK calls \in [1..k -> Calls] : items = Filed(calls, DeviceName)
      BY <2>1
    <2>3. calls \in Seq(Calls)
      BY AgentConstants
    <2> QED BY <2>2, <2>3, FiledIs
  <1> QED BY <1>1, <1>2, <1>3 DEF Pushes

\* enqueueEvents: what is accepted is a delivery of the outbox.
LEMMA EnqueueItemsProduces ==
    ASSUME NEW items \in Pushes, EnqueueItems(items, TRUE)
    PROVE  Enqueue
  <1> DEFINE kept == CollapseRepeatedEventIDs(items)
             chunks == PartitionEventEnvelopes(kept)
             k == Len(chunks)
  <1>1. ValidateIngestEnvelope(kept)
    BY DEF EnqueueItems
  <1>2. PICK ids \in BatchIDs(chunks) : EnqueueManyNext(chunks, ids)
    BY DEF EnqueueItems
  <1>3. PICK T : items \in Seq(T)
    BY PushesAreSequences
  <1>4. kept \in Seq(T)
    BY <1>3, CollapseKeepsFirsts DEF Firsts
  <1>5. chunks \in Seq(Seq(T)) /\ k >= 1
    <2> HIDE DEF kept
    <2> QED BY <1>4, PartitionIsExact DEF Parts
  <1>6. k <= MaxChunks /\ ToSet(chunks) \subseteq Payloads
    BY <1>1, AgentConstants
  <1> HIDE DEF chunks, kept
  <1>7. k \in Nat /\ DOMAIN chunks = 1..k /\ chunks = [i \in 1..k |-> chunks[i]]
    BY <1>5
  <1>8. chunks \in [1..k -> Payloads]
    BY <1>6, <1>7 DEF ToSet
  <1>9. ids \in [1..k -> Batches] /\ FreshIds(ids)
    BY <1>2, <1>7 DEF BatchIDs
  <1>10. k \in 1..MaxChunks
    BY <1>5, <1>6, <1>7, OutboxConstants
  <1> HIDE DEF k
  <1> QED BY <1>2, <1>8, <1>9, <1>10 DEF Enqueue

\* A push is a delivery, or the upload path does not see it.
LEMMA PushRefines ==
    ASSUME NEW items, IsV2 => items \in Pushes, NEW ok \in BOOLEAN, Push(items, ok)
    PROVE  Produce \/ UNCHANGED vars
  <1>1. CASE ~IsV2
    BY <1>1 DEF Push, PostIngest, vars, outboxVars, hub
  <1>2. CASE IsV2 /\ ~ok
    BY <1>2 DEF Push, EnqueueItems, vars, outboxVars, hub
  <1>3. CASE IsV2 /\ ok
    <2>1. EnqueueItems(items, TRUE) /\ UNCHANGED <<hub, conn>>
      BY <1>3 DEF Push
    <2>2. items \in Pushes
      BY <1>3
    <2> QED BY <2>1, <2>2, EnqueueItemsProduces DEF Produce
  <1> QED BY <1>1, <1>2, <1>3

\* The sources push nothing but Pushes.
LEMMA RingIsPush ==
    ASSUME NEW buf \in Seq(Observed), Len(buf) \in 1..RingCap
    PROVE  buf \in Pushes
  <1> DEFINE k == Len(buf)
             calls == [i \in 1..k |-> buf[i].id]
  <1>1. k \in 1..RingCap /\ k \in Nat /\ DOMAIN buf = 1..k
    BY AgentConstants
  <1>2. ASSUME NEW i \in 1..k
        PROVE  buf[i].id \in Calls /\ buf[i] = [id |-> buf[i].id, device |-> DeviceName]
    <2>1. PICK call \in Calls : buf[i] = Observation(call)
      BY DEF Observed
    <2> QED BY <2>1 DEF Observation
  <1>3. calls \in [1..k -> Calls] /\ DOMAIN calls = 1..k
    BY <1>2
  <1>4. Filed(calls, DeviceName) = buf
    <2>1. Filed(calls, DeviceName) = [i \in 1..k |-> [id |-> buf[i].id, device |-> DeviceName]]
      BY <1>3 DEF Filed
    <2>2. buf = [i \in 1..k |-> buf[i]]
      BY <1>1
    <2> HIDE DEF k, calls
    <2> QED BY <1>2, <2>1, <2>2
  <1> HIDE DEF k, calls
  <1> QED BY <1>1, <1>3, <1>4 DEF Pushes

\* The reader reports a capture the status line made.
LEMMA ReadingIsPush ==
    ASSUME AgentTypes, Reportable
    PROVE  /\ capture \in Captures
           /\ IsV2 => <<Reading(capture)>> \in Pushes
  <1>1. world.until \in Nat /\ capture \in 1..world.until
    BY AgentConstants DEF AgentTypes, Reportable
  <1>2. capture \in Captures
    BY <1>1 DEF Captures, AgentTypes
  <1> QED BY <1>2 DEF Pushes, Reading, ScanDevice

\* Every step of the agent is a step of the upload path, or it leaves that
\* path alone.
LEMMA AgentStepRefines ==
    ASSUME AgentTypes, AgentStep
    PROVE  [Next]_vars
  <1>0. ASSUME Nothing PROVE UNCHANGED vars
    BY <1>0 DEF Nothing, vars, outboxVars, hub
  <1>1. CASE ScanOnce
    <2>1. CASE Nothing
      BY <1>0, <2>1
    <2>2. CASE \E batch \in ScanBatches, ok \in BOOLEAN : Push(Filed(batch, ScanDevice), ok)
      <3>1. PICK batch \in ScanBatches, ok \in BOOLEAN : Push(Filed(batch, ScanDevice), ok)
        BY <2>2
      <3>2. IsV2 => Filed(batch, ScanDevice) \in Pushes
        BY DEF Pushes, ScanDevice
      <3> QED BY <3>1, <3>2, PushRefines DEF Next
    <2> QED BY <1>1, <2>1, <2>2 DEF ScanOnce
  <1>2. CASE ReportProcs
    <2>1. CASE Nothing
      BY <1>0, <2>1
    <2>2. CASE \E ok \in BOOLEAN : Push(<<[id |-> ProcsId, device |-> ScanDevice]>>, ok)
      <3>1. ~IsV2
        BY <1>2 DEF ReportProcs, AgentTypes
      <3> QED BY <2>2, <3>1, PushRefines DEF Next
    <2> QED BY <1>2, <2>1, <2>2 DEF ReportProcs
  <1>3. CASE CollectStatusQuota
    <2>1. CASE Reportable
      <3>1. PICK ok \in BOOLEAN : Push(<<Reading(capture)>>, ok)
        BY <1>3, <2>1 DEF CollectStatusQuota
      <3> QED BY <2>1, <3>1, ReadingIsPush, PushRefines DEF Next
    <2>2. CASE ~Reportable
      BY <1>0, <1>3, <2>2 DEF CollectStatusQuota
    <2> QED BY <2>1, <2>2
  <1>4. ASSUME NEW call \in Calls, ServeHTTP(call) PROVE UNCHANGED vars
    BY <1>0, <1>4 DEF ServeHTTP
  <1>5. ASSUME NEW call \in Calls, Emit(call) PROVE [Next]_vars
    <2> DEFINE buf == Newest(Append(ring, Observation(call)))
    <2>1. buf \in Seq(Observed) /\ Len(buf) \in 1..RingCap
      <3>1. Observation(call) \in Observed
        BY DEF Observed
      <3> QED BY <3>1, NewestIs DEF AgentTypes
    <2>2. PICK ok \in BOOLEAN : Push(buf, ok)
      BY <1>5 DEF Emit
    <2> HIDE DEF buf
    <2>3. buf \in Pushes
      BY <2>1, RingIsPush
    <2> QED BY <2>2, <2>3, PushRefines DEF Next
  <1>6. CASE CaptureRateLimits \/ Tick
    BY <1>0, <1>6 DEF CaptureRateLimits, Tick
  <1>7. CASE Restart
    BY <1>7 DEF Restart, vars, outboxVars, hub
  <1>8. CASE Upload
    BY <1>8 DEF Upload, Next
  <1>9. CASE UNCHANGED <<vars, agentVars>>
    BY <1>9
  <1> QED BY <1>1, <1>2, <1>3, <1>4, <1>5, <1>6, <1>7, <1>8, <1>9
          DEF AgentStep, AgentNext, Source

\* What the sources of an agent hold.
THEOREM AgentTypesInvariant == AgentSpec => []AgentTypes
  <1>1. AgentTypes /\ [AgentNext]_<<vars, agentVars>> => AgentTypes'
    BY AgentTypesStep DEF AgentStep
  <1> QED BY <1>1, AgentTypesInit, PTL DEF AgentSpec

\* The resident loop, the proxy and the quota reader only ever take steps that
\* Delivery allows, so whatever holds of Delivery holds of the agent.
THEOREM SourcesRefineDelivery == AgentSpec => RefinesDelivery
  <1>1. AgentInit => Init
    BY DEF AgentInit
  <1>2. AgentTypes /\ [AgentNext]_<<vars, agentVars>> => [Next]_vars
    BY AgentStepRefines DEF AgentStep
  <1> QED BY <1>1, <1>2, AgentTypesInvariant, PTL DEF AgentSpec, RefinesDelivery, Spec

-----------------------------------------------------------------------------
(* What has arrived.                                                       *)

\* Neither the hub's history nor the outbox's ever loses an item.
LEMMA ArrivedGrows ==
    ASSUME TypeOK, [Next]_vars, posted \subseteq posted'
    PROVE  Arrived \subseteq Arrived'
  <1>1. \A n \in DOMAIN enqueued : n \in DOMAIN enqueued' /\ enqueued'[n] = enqueued[n]
    <2>1. CASE Produce
      <3>1. PICK k \in 1..MaxChunks, envs \in Seq(Envelope) : enqueued' = enqueued \o envs
        BY <2>1, EnqueueEffect DEF Produce
      <3>2. enqueued \in Seq(Envelope)
        BY DEF TypeOK, OutboxTypeOK
      <3> QED BY <3>1, <3>2
    <2>2. CASE ~Produce
      <3>1. enqueued' = enqueued
        BY <2>2 DEF Next, UploaderStep, HubStep, RevokeStep, Post, ReadAnswer, ReadRefusal,
                    Abandon, Acknowledge, vars, outboxVars
      <3> QED BY <3>1
    <2> QED BY <2>1, <2>2
  <1> QED BY <1>1 DEF Arrived

\* A push that was accepted has arrived: every item that stands for itself,
\* though its id be repeated.
LEMMA PushArrives ==
    ASSUME TypeOK, NEW T, NEW items \in Seq(T), Push(items, TRUE),
           NEW p \in 1..Len(items), items[p].id \in Calls \cup Captures,
           \A q \in 1..Len(items) : items[q].id = items[p].id => items[q] = items[p]
    PROVE  items[p] \in Arrived'
  <1>1. CASE ~IsV2
    <2>1. posted' = posted \cup Kept(ToSet(items))
      BY <1>1 DEF Push, PostIngest
    <2>2. items[p] \in ToSet(items)
      BY DEF ToSet
    <2> QED BY <2>1, <2>2 DEF Kept, Arrived
  <1>2. CASE IsV2
    <2> DEFINE kept == CollapseRepeatedEventIDs(items)
               chunks == PartitionEventEnvelopes(kept)
    <2>1. PICK ids \in BatchIDs(chunks) : EnqueueManyNext(chunks, ids)
      BY <1>2 DEF Push, EnqueueItems
    <2>2. Firsts(T, items, Len(items), kept)
      BY CollapseKeepsFirsts
    <2> HIDE DEF kept
    <2>3. kept \in Seq(T)
      BY <2>2 DEF Firsts
    <2>4. PICK r \in 1..Len(kept) : kept[r] = items[p]
      <3>1. PICK r \in DOMAIN kept : kept[r].id = items[p].id
        BY <2>2 DEF Firsts
      <3>2. PICK q \in 1..Len(items) : kept[r] = items[q]
        BY <2>2, <3>1 DEF Firsts
      <3>3. r \in 1..Len(kept)
        BY <2>3
      <3> QED BY <3>1, <3>2, <3>3
    <2>5. Parts(T, kept, 0, Len(kept), chunks)
      BY <2>3, PartitionIsExact
    <2> HIDE DEF chunks
    <2>6. PICK i \in 1..Len(chunks) : items[p] \in ToSet(chunks[i])
      BY <2>3, <2>4, <2>5, PartsCover
    <2>7. chunks \in Seq(Seq(T)) /\ Len(chunks) \in Nat /\ DOMAIN chunks = 1..Len(chunks)
      BY <2>5 DEF Parts
    <2> DEFINE envs == Assigned(chunks, ids)
    <2>8. enqueued' = enqueued \o envs
      BY <2>1 DEF EnqueueManyNext
    <2>9. envs[i].payload = chunks[i]
      BY <2>6, <2>7 DEF Assigned
    <2>10. envs \in Seq({envs[j] : j \in 1..Len(chunks)}) /\ Len(envs) = Len(chunks)
      BY <2>7 DEF Assigned
    <2>11. enqueued \in Seq(Envelope) /\ Len(enqueued) \in Nat
      BY DEF TypeOK, OutboxTypeOK
    <2> HIDE DEF envs
    <2>12. /\ Len(enqueued) + i \in DOMAIN (enqueued \o envs)
           /\ (enqueued \o envs)[Len(enqueued) + i] = envs[i]
      <3> DEFINE E == {envs[j] : j \in 1..Len(chunks)}
                 F == Envelope \cup E
      <3>1. enqueued \in Seq(F) /\ envs \in Seq(F)
        <4>1. Envelope \subseteq F /\ E \subseteq F /\ envs \in Seq(E)
          BY <2>10
        <4> HIDE DEF E, F
        <4> QED BY <2>11, <4>1, SeqMonotonic
      <3> HIDE DEF E, F
      <3>2. /\ enqueued \o envs \in Seq(F)
            /\ Len(enqueued \o envs) = Len(enqueued) + Len(envs)
            /\ \A j \in 1..(Len(enqueued) + Len(envs)) : (enqueued \o envs)[j] =
                    IF j <= Len(enqueued) THEN enqueued[j] ELSE envs[j - Len(enqueued)]
        BY <3>1, ConcatProperties
      <3>3. /\ Len(enqueued) + i \in 1..(Len(enqueued) + Len(envs))
            /\ ~(Len(enqueued) + i <= Len(enqueued))
            /\ Len(enqueued) + i - Len(enqueued) = i
        <4>1. Len(chunks) \in Nat /\ Len(envs) = Len(chunks) /\ Len(enqueued) \in Nat
          BY <2>7, <2>10, <2>11
        <4> QED BY <4>1
      <3>4. DOMAIN (enqueued \o envs) = 1..(Len(enqueued) + Len(envs))
        BY <3>2
      <3> QED BY <3>2, <3>3, <3>4
    <2> QED BY <2>6, <2>8, <2>9, <2>12 DEF Arrived
  <1> QED BY <1>1, <1>2

\* What the sink takes, refuses or fails on: history only grows.
LEMMA PushGrows ==
    ASSUME TypeOK, NEW items, IsV2 => items \in Pushes, NEW ok \in BOOLEAN, Push(items, ok)
    PROVE  Arrived \subseteq Arrived' /\ world' = world
  <1>1. posted \subseteq posted' /\ world' = world
    BY DEF Push, EnqueueItems, PostIngest
  <1>2. [Next]_vars
    BY PushRefines DEF Next
  <1> QED BY <1>1, <1>2, ArrivedGrows

\* No step of the agent takes back what has arrived, or changes the
\* configuration.
LEMMA AgentStepGrows ==
    ASSUME TypeOK, AgentTypes, AgentStep
    PROVE  Arrived \subseteq Arrived' /\ world' = world
  <1>1. posted \subseteq posted' /\ world' = world
    <2>1. ASSUME NEW items, NEW ok, Push(items, ok)
          PROVE  posted \subseteq posted' /\ world' = world
      BY <2>1 DEF Push, EnqueueItems, PostIngest
    <2>2. ASSUME Nothing PROVE posted' = posted /\ world' = world
      BY <2>2 DEF Nothing
    <2>3. CASE ScanOnce \/ ReportProcs \/ CollectStatusQuota
      BY <2>1, <2>2, <2>3 DEF ScanOnce, ReportProcs, CollectStatusQuota
    <2>4. ASSUME NEW call \in Calls, ServeHTTP(call) \/ Emit(call)
          PROVE  posted \subseteq posted' /\ world' = world
      BY <2>1, <2>2, <2>4 DEF ServeHTTP, Emit
    <2>5. CASE CaptureRateLimits \/ Tick \/ Restart
      BY <2>2, <2>5 DEF CaptureRateLimits, Tick, Restart
    <2>6. CASE Upload \/ UNCHANGED <<vars, agentVars>>
      BY <2>6 DEF Upload, agentVars
    <2> QED BY <2>3, <2>4, <2>5, <2>6 DEF AgentStep, AgentNext, Source
  <1> QED BY <1>1, AgentStepRefines, ArrivedGrows

-----------------------------------------------------------------------------
(* The ring.                                                               *)

\* What emit sends, under its mutex: the events of the newest calls, as many
\* as fit the ring, and if the sink takes them they have arrived.
LEMMA EmitSends ==
    ASSUME TypeOK, AgentTypes, NEW call \in Calls, Emit(call)
    PROVE  \E buf \in Seq(Observed), ok \in BOOLEAN :
            /\ buf = Newest(Append(ring, Observation(call)))
            /\ Push(buf, ok) /\ ring' = Buffered(buf, ok)
            /\ Len(buf) \in 1..RingCap
            /\ Len(buf) = Len(ring) + 1 \/ (Len(buf) = RingCap /\ Len(ring) = RingCap)
            /\ \A i \in 1..Len(buf) :
                    buf[i] = Append(ring, Observation(call))[Len(ring) + 1 - Len(buf) + i]
            /\ ok => \A i \in 1..Len(buf) : buf[i] \in Arrived'
  <1> DEFINE all == Append(ring, Observation(call))
             buf == Newest(all)
  <1>1. PICK ok \in BOOLEAN : Push(buf, ok) /\ ring' = Buffered(buf, ok)
    BY DEF Emit
  <1>2. /\ buf \in Seq(Observed) /\ Len(buf) \in 1..RingCap
        /\ Len(buf) = Len(ring) + 1 \/ (Len(buf) = RingCap /\ Len(ring) = RingCap)
        /\ \A i \in 1..Len(buf) : buf[i] = all[Len(ring) + 1 - Len(buf) + i]
    <2>1. Observation(call) \in Observed
      BY DEF Observed
    <2>2. ring \in Seq(Observed) /\ Len(ring) <= RingCap
      BY DEF AgentTypes
    <2> HIDE DEF Observed
    <2> QED BY <2>1, <2>2, NewestIs
  <1> HIDE DEF buf, all
  <1>3. \A i \in 1..Len(buf) : buf[i] \in Observed
    BY <1>2
  <1>4. \A o \in Observed : o.id \in Calls
    BY DEF Observed, Observation
  <1>5. \A o, u \in Observed : o.id = u.id => o = u
    BY DEF Observed, Observation
  <1>6. ASSUME ok, NEW i \in 1..Len(buf) PROVE buf[i] \in Arrived'
    <2>1. Push(buf, TRUE)
      BY <1>1, <1>6
    <2>2. buf[i].id \in Calls \cup Captures
      BY <1>3, <1>4
    <2>3. \A q \in 1..Len(buf) : buf[q].id = buf[i].id => buf[q] = buf[i]
      BY <1>3, <1>5
    <2> QED BY <1>2, <2>1, <2>2, <2>3, PushArrives
  <1> QED BY <1>1, <1>2, <1>6 DEF buf, all

\* emit keeps the ring what it should be, whatever the sink answers.
LEMMA RingEmits ==
    ASSUME TypeOK, AgentTypes, RingOK, NEW call \in Calls, Emit(call),
           Arrived \subseteq Arrived'
    PROVE  RingOK'
  <1> DEFINE all == Append(ring, Observation(call))
             L == Len(emitted)
             r == Len(ring)
             Event(n) == Observation(emitted'[n])
  <1>1. PICK buf \in Seq(Observed), ok \in BOOLEAN :
            /\ ring' = Buffered(buf, ok)
            /\ Len(buf) \in 1..RingCap
            /\ Len(buf) = r + 1 \/ (Len(buf) = RingCap /\ r = RingCap)
            /\ \A i \in 1..Len(buf) : buf[i] = all[r + 1 - Len(buf) + i]
            /\ ok => \A i \in 1..Len(buf) : buf[i] \in Arrived'
    BY EmitSends
  <1> DEFINE b == Len(buf)
  <1>2. /\ ring \in Seq(Observed) /\ emitted \in Seq(Calls) /\ L \in Nat /\ r \in Nat
        /\ RingCap \in Nat /\ r <= RingCap /\ r <= L /\ b \in Nat /\ b >= 1 /\ b <= RingCap
    BY <1>1, AgentConstants DEF AgentTypes, RingOK
  <1>3. emitted' = Append(emitted, call)
    BY DEF Emit
  <1>4. /\ Len(emitted') = L + 1 /\ emitted'[L + 1] = call
        /\ \A n \in 1..L : emitted'[n] = emitted[n]
    BY <1>2, <1>3
  <1>5. \A j \in 1..(r + 1) : all[j] = Event(L - r + j)
    <2> SUFFICES ASSUME NEW j \in 1..(r + 1) PROVE all[j] = Event(L - r + j)
      OBVIOUS
    <2>1. CASE j = r + 1
      <3>1. all[j] = Observation(call) /\ L - r + j = L + 1
        BY <1>2, <2>1
      <3> QED BY <1>4, <3>1
    <2>2. CASE j # r + 1
      <3>1. j \in 1..r /\ L - r + j \in 1..L
        BY <1>2, <2>2
      <3>2. all[j] = ring[j]
        BY <1>2, <3>1
      <3>3. ring[j] = Observation(emitted[L - r + j])
        BY <3>1 DEF RingOK
      <3> QED BY <1>4, <3>1, <3>2, <3>3
    <2> QED BY <2>1, <2>2
  <1> HIDE DEF all
  <1>6. b <= r + 1 /\ (b = r + 1 \/ b = RingCap)
    BY <1>1, <1>2
  <1>7. \A i \in 1..b : buf[i] = Event(L + 1 - b + i)
    <2> SUFFICES ASSUME NEW i \in 1..b PROVE buf[i] = Event(L + 1 - b + i)
      OBVIOUS
    <2>1. r + 1 - b + i \in 1..(r + 1) /\ L - r + (r + 1 - b + i) = L + 1 - b + i
      BY <1>2, <1>6
    <2>2. buf[i] = all[r + 1 - b + i]
      BY <1>1
    <2>3. all[r + 1 - b + i] = Event(L - r + (r + 1 - b + i))
      BY <1>5, <2>1
    <2> HIDE DEF b, L, r, Event
    <2> QED BY <2>1, <2>2, <2>3
  <1>8. ASSUME NEW n \in 1..(L + 1), n > L + 1 - RingCap
        PROVE  n > L + 1 - b \/ Event(n) \in Arrived'
    <2>1. CASE b = RingCap
      BY <1>8, <2>1
    <2>2. CASE b = r + 1 /\ n = L + 1
      BY <1>2, <2>2
    <2>3. CASE b = r + 1 /\ n # L + 1
      <3>1. n \in 1..L /\ n > L - RingCap
        BY <1>2, <1>8, <2>3
      <3>2. n > L - r \/ Observation(emitted[n]) \in Arrived
        BY <3>1 DEF RingOK
      <3>3. Event(n) = Observation(emitted[n])
        BY <1>4, <3>1
      <3>4. CASE n > L - r
        BY <1>2, <2>3, <3>4
      <3>5. CASE Observation(emitted[n]) \in Arrived
        BY <3>3, <3>5
      <3> QED BY <3>2, <3>4, <3>5
    <2> QED BY <1>6, <2>1, <2>2, <2>3
  <1> HIDE DEF b, L, r
  <1>9. CASE ok
    <2>1. ring' = <<>>
      BY <1>1, <1>9 DEF Buffered
    <2>2. ASSUME NEW n \in 1..(L + 1), n > L + 1 - RingCap PROVE Event(n) \in Arrived'
      <3>1. CASE n > L + 1 - b
        <4>1. n - (L + 1 - b) \in 1..b /\ L + 1 - b + (n - (L + 1 - b)) = n
          BY <1>2, <3>1
        <4>2. buf[n - (L + 1 - b)] = Event(n)
          BY <1>7, <4>1
        <4>3. buf[n - (L + 1 - b)] \in Arrived'
          BY <1>1, <1>9, <4>1 DEF b
        <4> QED BY <4>2, <4>3
      <3> QED BY <1>8, <2>2, <3>1
    <2>3. Len(ring') = 0 /\ 0 <= L + 1 /\ \A i \in 1..Len(ring') : FALSE
      BY <1>2, <2>1
    <2>4. Len(ring') <= Len(emitted')
      BY <1>2, <1>4, <2>3
    <2>5. \A n \in 1..Len(emitted') : n > Len(emitted') - RingCap => Event(n) \in Arrived'
      <3> HIDE DEF Event
      <3> QED BY <1>2, <1>4, <2>2
    <2> QED BY <2>3, <2>4, <2>5 DEF RingOK, Observation
  <1>10. CASE ~ok
    <2>1. ring' = buf /\ Len(ring') = b /\ b <= L + 1
      BY <1>1, <1>2, <1>6, <1>10 DEF Buffered, b
    <2>2. \A i \in 1..Len(ring') : ring'[i] = Event(Len(emitted') - Len(ring') + i)
      <3> HIDE DEF Event
      <3>1. Len(emitted') - Len(ring') = L + 1 - b
        BY <1>2, <1>4, <2>1
      <3> QED BY <1>7, <2>1, <3>1
    <2>3. \A n \in 1..Len(emitted') : n > Len(emitted') - RingCap =>
                n > Len(emitted') - Len(ring') \/ Event(n) \in Arrived'
      <3> HIDE DEF Event
      <3>1. Len(emitted') - Len(ring') = L + 1 - b /\ Len(emitted') - RingCap = L + 1 - RingCap
        BY <1>2, <1>4, <2>1
      <3> QED BY <1>4, <1>8, <3>1
    <2>4. Len(ring') <= Len(emitted')
      BY <1>2, <1>4, <2>1
    <2> QED BY <2>2, <2>3, <2>4 DEF RingOK, Observation
  <1> QED BY <1>9, <1>10

\* Every step keeps the ring what it should be.
LEMMA RingStep ==
    ASSUME TypeOK, AgentTypes, RingOK, AgentStep
    PROVE  RingOK'
  <1>1. Arrived \subseteq Arrived' /\ world' = world
    BY AgentStepGrows
  <1>2. ASSUME ring' = ring, emitted' = emitted PROVE RingOK'
    BY <1>1, <1>2 DEF RingOK, Observation
  <1>3. CASE ScanOnce \/ ReportProcs \/ CollectStatusQuota
    BY <1>2, <1>3 DEF ScanOnce, ReportProcs, CollectStatusQuota, proxyVars
  <1>4. ASSUME NEW call \in Calls, ServeHTTP(call) PROVE RingOK'
    BY <1>2, <1>4 DEF ServeHTTP
  <1>5. ASSUME NEW call \in Calls, Emit(call) PROVE RingOK'
    BY <1>1, <1>5, RingEmits
  <1>6. CASE CaptureRateLimits \/ Tick
    BY <1>2, <1>6 DEF CaptureRateLimits, Tick, proxyVars
  <1>7. CASE Restart
    <2>1. ring' = <<>> /\ emitted' = <<>>
      BY <1>7 DEF Restart
    <2> QED BY <2>1 DEF RingOK
  <1>8. CASE Upload \/ UNCHANGED <<vars, agentVars>>
    BY <1>2, <1>8 DEF Upload, agentVars, proxyVars
  <1> QED BY <1>3, <1>4, <1>5, <1>6, <1>7, <1>8 DEF AgentStep, AgentNext, Source

\* Initially nothing was emitted and the ring is empty.
LEMMA RingInit == AgentInit => RingOK
  <1>1. Len(<<>>) = 0
    OBVIOUS
  <1> QED BY <1>1 DEF AgentInit, RingOK

\* A suffix, position by position.
LEMMA SuffixByPosition ==
    ASSUME NEW T, NEW s \in Seq(T), NEW t \in Seq(T), Len(s) <= Len(t),
           \A i \in 1..Len(s) : s[i] = t[Len(t) - Len(s) + i]
    PROVE  IsSuffix(s, t)
  <1> DEFINE m == Len(s)
             n == Len(t)
             rs == Reverse(s)
             rt == Reverse(t)
  <1>1. m \in Nat /\ n \in Nat /\ m <= n
    OBVIOUS
  <1>2. rs \in Seq(T) /\ Len(rs) = m /\ \A i \in 1..m : rs[i] = s[m - i + 1]
    <2>1. \A i \in 1..m : m - i + 1 \in 1..m
      BY <1>1
    <2> QED BY <1>1, <2>1 DEF Reverse
  <1>3. rt \in Seq(T) /\ Len(rt) = n /\ \A i \in 1..n : rt[i] = t[n - i + 1]
    <2>1. \A i \in 1..n : n - i + 1 \in 1..n
      BY <1>1
    <2> QED BY <1>1, <2>1 DEF Reverse
  <1>4. ASSUME NEW i \in 1..m PROVE rs[i] = rt[i]
    <2>1. /\ m - i + 1 \in 1..m /\ n - m + (m - i + 1) = n - i + 1 /\ i \in 1..n
      BY <1>1
    <2>2. s[m - i + 1] = t[n - m + (m - i + 1)]
      BY <2>1
    <2> HIDE DEF m, n, rs, rt
    <2> QED BY <1>2, <1>3, <2>1, <2>2
  <1> HIDE DEF m, n, rs, rt
  <1>5. SubSeq(rs, 1, m) = [i \in 1..m |-> rs[i]]
    BY <1>1, <1>2
  <1>6. SubSeq(rt, 1, m) = [i \in 1..m |-> rt[i]]
    BY <1>1, <1>3
  <1>7. IsPrefix(rs, rt)
    BY <1>1, <1>2, <1>3, <1>4, <1>5, <1>6 DEF IsPrefix
  <1> QED BY <1>7 DEF IsSuffix, rs, rt

\* By position or as a suffix: the ring holds the newest events.
LEMMA RingHoldsNewest ==
    ASSUME AgentTypes, RingOK
    PROVE  NewestEventsKept
  <1> DEFINE L == Len(emitted)
             r == Len(ring)
             events == [n \in DOMAIN emitted |-> Observation(emitted[n])]
  <1>1. /\ ring \in Seq(Observed) /\ emitted \in Seq(Calls) /\ r <= RingCap /\ r <= L
        /\ L \in Nat /\ r \in Nat /\ DOMAIN emitted = 1..L /\ RingCap \in Nat
    BY AgentConstants DEF AgentTypes, RingOK
  <1>2. events \in Seq(Observed) /\ Len(events) = L /\ \A n \in 1..L : events[n] = Observation(emitted[n])
    <2>1. \A n \in 1..L : Observation(emitted[n]) \in Observed
      BY <1>1 DEF Observed
    <2>2. events = [n \in 1..L |-> Observation(emitted[n])]
      BY <1>1
    <2> HIDE DEF events, L
    <2> QED BY <1>1, <2>1, <2>2
  <1> HIDE DEF events
  <1>3. IsSuffix(ring, events)
    <2>1. \A i \in 1..r : L - r + i \in 1..L
      BY <1>1
    <2>2. \A i \in 1..r : ring[i] = Observation(emitted[L - r + i])
      BY DEF RingOK
    <2>3. \A i \in 1..Len(ring) : ring[i] = events[Len(events) - Len(ring) + i]
      BY <1>2, <2>1, <2>2
    <2> QED BY <1>1, <1>2, <2>3, SuffixByPosition
  <1>4. ASSUME NEW n \in 1..L, n > L - RingCap
        PROVE  Observation(emitted[n]) \in ToSet(ring) \cup Arrived
    <2>1. CASE n > L - r
      <3>1. n - (L - r) \in 1..r /\ L - r + (n - (L - r)) = n
        BY <1>1, <2>1
      <3>2. ring[n - (L - r)] = Observation(emitted[L - r + (n - (L - r))])
        BY <3>1 DEF RingOK
      <3>3. ring[n - (L - r)] \in ToSet(ring)
        BY <1>1, <3>1 DEF ToSet
      <3> QED BY <3>1, <3>2, <3>3
    <2>2. CASE ~(n > L - r)
      BY <1>4, <2>2 DEF RingOK
    <2> QED BY <2>1, <2>2
  <1> QED BY <1>1, <1>3, <1>4 DEF NewestEventsKept, events

\* However long the hub or the outbox refuses, the proxy's ring holds the
\* newest events in the order they were emitted, and what is not in it and
\* did not arrive was pushed out by RingCap younger ones (proxyRingCap).
THEOREM NewestKept == AgentSpec => []NewestEventsKept
  <1>1. TypeOK /\ AgentTypes /\ RingOK /\ [AgentNext]_<<vars, agentVars>> => RingOK'
    BY RingStep DEF AgentStep
  <1>2. AgentTypes /\ RingOK => NewestEventsKept
    BY RingHoldsNewest
  <1>3. AgentSpec => []TypeOK
    BY SourcesRefineDelivery, TypeCorrect DEF RefinesDelivery
  <1> QED BY <1>1, <1>2, <1>3, RingInit, AgentTypesInvariant, PTL DEF AgentSpec

-----------------------------------------------------------------------------
(* Without an outage nothing is lost.                                      *)

\* Once repeated ids are collapsed, what carries the device's id validates.
LEMMA CollapsedValidates ==
    ASSUME NEW T, NEW items \in Seq(T), \A i \in 1..Len(items) : items[i].device = Device
    PROVE  ValidateIngestEnvelope(CollapseRepeatedEventIDs(items))
  <1> DEFINE kept == CollapseRepeatedEventIDs(items)
  <1>1. Firsts(T, items, Len(items), kept)
    BY CollapseKeepsFirsts
  <1> HIDE DEF kept
  <1>2. \A i \in DOMAIN kept : \E j \in 1..Len(items) : kept[i] = items[j]
    BY <1>1 DEF Firsts
  <1>3. \A i \in DOMAIN kept : kept[i].device = Device
    BY <1>2
  <1>4. \A i, j \in DOMAIN kept : kept[i].id = kept[j].id => i = j
    BY <1>1 DEF Firsts
  <1> QED BY <1>3, <1>4 DEF ValidateIngestEnvelope, kept

\* A push that fails is an outage, unless the envelope carries another
\* device's items.
LEMMA FailureIsOutage ==
    ASSUME NEW T, NEW items \in Seq(T), Push(items, FALSE),
           IsV2 => \A i \in 1..Len(items) : items[i].device = Device
    PROVE  outage' = TRUE
  <1>1. CASE ~IsV2
    BY <1>1 DEF Push, PostIngest
  <1>2. CASE IsV2
    <2>1. ValidateIngestEnvelope(CollapseRepeatedEventIDs(items))
      BY <1>2, CollapsedValidates
    <2>2. outage' = (outage \/ ValidateIngestEnvelope(CollapseRepeatedEventIDs(items)))
      BY <1>2 DEF Push, EnqueueItems
    <2> QED BY <2>1, <2>2
  <1> QED BY <1>1, <1>2

\* Initially there is nothing to lose.
LEMMA LossInit == AgentInit => LossOK
  BY DEF AgentInit, LossOK

\* The configuration does not change, nor do the identities it gives.
LEMMA IdentitiesStay ==
    ASSUME world' = world
    PROVE  /\ OneIdentity' = OneIdentity
           /\ \A call : Observation(call)' = Observation(call)
           /\ Reading(lastObserved)' = [id |-> lastObserved', device |-> ScanDevice]
  BY DEF OneIdentity, Observation, Reading, ScanDevice, IsV2

\* A step that touches neither the ring nor the reader.
LEMMA LossUnchanged ==
    ASSUME LossOK, world' = world, Arrived \subseteq Arrived', ~outage' => ~outage,
           UNCHANGED <<ring, pending, observed, lastObserved>>
    PROVE  LossOK'
  <1>1. OneIdentity' = OneIdentity /\ Reading(lastObserved)' = Reading(lastObserved)
    BY IdentitiesStay DEF Reading
  <1> QED BY <1>1 DEF LossOK, Observation

\* collectStatusQuota: what the reader counts as reported has arrived, or the
\* sink failed.
LEMMA LossCollect ==
    ASSUME TypeOK, AgentTypes, LossOK, Arrived \subseteq Arrived', CollectStatusQuota
    PROVE  LossOK'
  <1>1. CASE ~Reportable
    BY <1>1, LossUnchanged DEF CollectStatusQuota, Nothing, proxyVars
  <1>2. CASE Reportable
    <2> DEFINE items == <<Reading(capture)>>
    <2>1. PICK ok \in BOOLEAN : Push(items, ok)
      BY <1>2 DEF CollectStatusQuota
    <2>2. /\ lastObserved' = capture /\ UNCHANGED <<ring, pending, observed>>
          /\ world' = world
      BY <1>2, <2>1 DEF CollectStatusQuota, proxyVars, Push
    <2>3. /\ items \in Seq({Reading(capture)}) /\ Len(items) = 1 /\ 1 \in 1..Len(items)
          /\ \A i \in 1..Len(items) : items[i] = Reading(capture)
      OBVIOUS
    <2>4. Reading(capture).id = capture /\ Reading(capture).device = ScanDevice
      BY DEF Reading
    <2>5. CASE ok
      <3>1. capture \in Captures
        BY <1>2, ReadingIsPush
      <3>2. Push(items, TRUE)
        BY <2>1, <2>5
      <3> HIDE DEF items
      <3>3. items[1] \in Arrived'
        BY <2>3, <2>4, <3>1, <3>2, PushArrives
      <3>4. Reading(lastObserved)' = Reading(capture)
        BY <2>2, IdentitiesStay DEF Reading
      <3>5. Reading(lastObserved)' \in Arrived'
        BY <2>3, <3>3, <3>4
      <3>6. ~outage' => ~outage
        BY <3>2 DEF Push, EnqueueItems, PostIngest
      <3>7. OneIdentity' = OneIdentity
        BY <2>2, IdentitiesStay
      <3> QED BY <2>2, <3>5, <3>6, <3>7 DEF LossOK, Observation
    <2>6. CASE ~ok
      <3>1. Push(items, FALSE)
        BY <2>1, <2>6
      <3>2. IsV2 => \A i \in 1..Len(items) : items[i].device = Device
        BY <2>3, <2>4 DEF ScanDevice
      <3> HIDE DEF items
      <3>3. outage' = TRUE
        BY <2>3, <3>1, <3>2, FailureIsOutage
      <3> QED BY <3>3 DEF LossOK
    <2> QED BY <2>5, <2>6
  <1> QED BY <1>1, <1>2

\* emit: the event has arrived, or the sink failed.
LEMMA LossEmit ==
    ASSUME TypeOK, AgentTypes, LossOK, Arrived \subseteq Arrived',
           NEW call \in Calls, Emit(call)
    PROVE  LossOK'
  <1>1. PICK buf \in Seq(Observed), ok \in BOOLEAN :
            /\ Push(buf, ok) /\ ring' = Buffered(buf, ok)
            /\ Len(buf) \in 1..RingCap
            /\ \A i \in 1..Len(buf) :
                    buf[i] = Append(ring, Observation(call))[Len(ring) + 1 - Len(buf) + i]
            /\ ok => \A i \in 1..Len(buf) : buf[i] \in Arrived'
    BY EmitSends
  <1>2. /\ world' = world /\ pending' = pending \ {call} /\ call \in pending
        /\ UNCHANGED <<observed, lastObserved>>
    BY <1>1 DEF Emit, Push, quotaVars
  <1>3. OneIdentity' = OneIdentity /\ Reading(lastObserved)' = Reading(lastObserved)
    BY <1>2, IdentitiesStay DEF Reading
  <1>4. CASE ok
    <2>1. ring' = <<>> /\ (~outage' => ~outage)
      BY <1>1, <1>4 DEF Buffered, Push, EnqueueItems, PostIngest
    <2>2. Observation(call) \in Arrived'
      <3>1. Len(buf) \in Nat /\ Len(buf) \in 1..Len(buf) /\ RingCap \in Nat
        BY <1>1, AgentConstants
      <3>2. ring \in Seq(Observed) /\ Len(ring) \in Nat
        BY DEF AgentTypes
      <3>3. Append(ring, Observation(call))[Len(ring) + 1] = Observation(call)
        BY <3>2
      <3>4. Len(ring) + 1 - Len(buf) + Len(buf) = Len(ring) + 1
        BY <3>1, <3>2
      <3>5. buf[Len(buf)] = Observation(call)
        BY <1>1, <3>1, <3>3, <3>4
      <3> QED BY <1>1, <1>4, <3>1, <3>5
    <2>3. ASSUME OneIdentity, ~outage, NEW c \in observed
          PROVE  c \in pending' \/ Observation(c) \in Arrived'
      BY <1>2, <2>2, <2>3 DEF LossOK
    <2> QED BY <1>2, <1>3, <2>1, <2>3 DEF LossOK, Observation
  <1>5. CASE ~ok
    <2>1. ASSUME OneIdentity PROVE outage' = TRUE
      <3>1. world.proxy
        BY <1>2 DEF AgentTypes
      <3>2. IsV2 => DeviceName = Device
        BY <2>1, <3>1 DEF OneIdentity
      <3>3. \A o \in Observed : o.device = DeviceName
        BY DEF Observed, Observation
      <3>4. IsV2 => \A i \in 1..Len(buf) : buf[i].device = Device
        BY <3>2, <3>3
      <3>5. Push(buf, FALSE)
        BY <1>1, <1>5
      <3> QED BY <3>4, <3>5, FailureIsOutage
    <2> QED BY <1>3, <2>1 DEF LossOK
  <1> QED BY <1>4, <1>5

\* Every step keeps: without an outage, nothing waits and nothing is lost.
LEMMA LossStep ==
    ASSUME TypeOK, AgentTypes, LossOK, AgentStep
    PROVE  LossOK'
  <1>1. Arrived \subseteq Arrived' /\ world' = world
    BY AgentStepGrows
  <1>2. ASSUME NEW items, NEW ok \in BOOLEAN, Push(items, ok) PROVE ~outage' => ~outage
    BY <1>2 DEF Push, EnqueueItems, PostIngest
  <1>3. CASE ScanOnce \/ ReportProcs
    BY <1>1, <1>2, <1>3, LossUnchanged DEF ScanOnce, ReportProcs, Nothing, proxyVars, quotaVars
  <1>4. CASE CollectStatusQuota
    BY <1>1, <1>4, LossCollect
  <1>5. ASSUME NEW call \in Calls, ServeHTTP(call) PROVE LossOK'
    <2>1. /\ observed' = observed \cup {call} /\ pending' = pending \cup {call}
          /\ UNCHANGED <<ring, lastObserved, outage>>
      BY <1>5 DEF ServeHTTP, Nothing, quotaVars
    <2>2. OneIdentity' = OneIdentity /\ Reading(lastObserved)' = Reading(lastObserved)
      BY <1>1, <2>1, IdentitiesStay DEF Reading
    <2> QED BY <1>1, <2>1, <2>2 DEF LossOK, Observation
  <1>6. ASSUME NEW call \in Calls, Emit(call) PROVE LossOK'
    BY <1>1, <1>6, LossEmit
  <1>7. CASE CaptureRateLimits \/ Tick
    BY <1>1, <1>7, LossUnchanged DEF CaptureRateLimits, Tick, Nothing, proxyVars
  <1>8. CASE Restart
    BY <1>8 DEF Restart, LossOK
  <1>9. CASE Upload \/ UNCHANGED <<vars, agentVars>>
    BY <1>1, <1>9, LossUnchanged DEF Upload, agentVars, proxyVars, quotaVars
  <1> QED BY <1>3, <1>4, <1>5, <1>6, <1>7, <1>8, <1>9 DEF AgentStep, AgentNext, Source

\* Unless a sink failed or the process was restarted, every call the proxy
\* observed and every capture the reader has counted as reported is with the
\* hub or durable, or on its way to the ring.  On protocol v2 the proxy must
\* file its calls under the enrolled device id: with another name the
\* envelope is refused for good, which is the finding of proxy_v2_device.
THEOREM OnlyOutagesLose == AgentSpec => [](OneIdentity => LossNeedsOutage)
  <1>1. TypeOK /\ AgentTypes /\ LossOK /\ [AgentNext]_<<vars, agentVars>> => LossOK'
    BY LossStep DEF AgentStep
  <1>2. LossOK => (OneIdentity => LossNeedsOutage)
    BY DEF LossOK, LossNeedsOutage
  <1>3. AgentSpec => []TypeOK
    BY SourcesRefineDelivery, TypeCorrect DEF RefinesDelivery
  <1> QED BY <1>1, <1>2, <1>3, LossInit, AgentTypesInvariant, PTL DEF AgentSpec

\* What Delivery guarantees holds with the real sources in front of it: the
\* batches of scans, captures and the proxy's ring are applied by the hub
\* once and in the order they became durable, and none of them leaves the
\* outbox before that.
THEOREM AgentDeliversOnce ==
    AgentSpec => RefinesChannel /\ []AppliedInOrderOnce /\ []RemovedOnlyIfApplied
  BY SourcesRefineDelivery, Refinement, InOrderOnce, NothingLost DEF RefinesDelivery
=============================================================================
