--------------------------- MODULE HubIngestProofs ---------------------------
(***************************************************************************)
(* The v2 ingest endpoint on its own keeps its promises to any clients,    *)
(* for every set of connections, devices and requests.                     *)
(***************************************************************************)
EXTENDS HubIngest, TLAPS

hubVars == <<receipts, applied, revoked, handler>>

\* What the answers rest on: a handler past "idle" holds a request of a client,
\* and an answer was a receipt of that request's device and batch when given.
HubInv ==
    /\ HubTypeOK
    /\ ReceiptPerAppliedBatch
    /\ AnswerNamesItsDevice
    /\ \A c \in Conns : handler[c].stage # "idle" => handler[c].env \in Requests

\* The endpoint starts with no receipts and idle connections.
LEMMA HubInvInit == HubInit => HubInv
  BY DEF HubInit, HubInv, HubTypeOK, ReceiptPerAppliedBatch, AnswerNamesItsDevice,
         Handler, Idle, Stages

\* Nothing but the two ends of ApplyIngestV2 touches receipts or payloads: any
\* other handler step keeps the promises if the stage it reaches is no answer.
LEMMA NoAnswerKeepsInv ==
  ASSUME HubInv, NEW c \in Conns,
         NEW h \in Handler, h.stage # "answered",
         h.stage # "idle" => h.env \in Requests,
         handler' = [handler EXCEPT ![c] = h],
         UNCHANGED <<receipts, applied>>,
         revoked' \subseteq Devices
  PROVE  HubInv'
  <1>1. HubTypeOK'
    BY DEF HubInv, HubTypeOK
  <1>2. ReceiptPerAppliedBatch'
    BY DEF HubInv, ReceiptPerAppliedBatch
  <1>3. AnswerNamesItsDevice'
    BY DEF HubInv, HubTypeOK, AnswerNamesItsDevice
  <1>4. \A d \in Conns : handler'[d].stage # "idle" => handler'[d].env \in Requests
    BY DEF HubInv, HubTypeOK
  <1> QED BY <1>1, <1>2, <1>3, <1>4 DEF HubInv

\* A payload and its receipt are written together, on a batch id without one.
LEMMA ApplyNewKeepsInv ==
  ASSUME HubInv, NEW c \in Conns, ApplyNew(c)
  PROVE  HubInv'
  <1> DEFINE env == handler[c].env
  <1>1. env \in Requests /\ AckFor(env) \in Acks
    BY DEF HubInv, ApplyNew, Acks
  <1>2. /\ applied \in Seq(Requests)
        /\ applied' = Append(applied, env)
        /\ applied' \in Seq(Requests)
        /\ Len(applied') = Len(applied) + 1
        /\ \A i \in 1..Len(applied) : applied'[i] = applied[i]
        /\ applied'[Len(applied) + 1] = env
        /\ DOMAIN applied = 1..Len(applied)
        /\ DOMAIN applied' = 1..(Len(applied) + 1)
    BY <1>1 DEF HubInv, HubTypeOK, ApplyNew
  <1>3. handler' = [handler EXCEPT
            ![c] = [stage |-> "answered", env |-> env, ack |-> AckFor(env)]]
    BY DEF ApplyNew, Reach
  <1>4. receipts' = receipts \cup {AckFor(env)}
    BY DEF ApplyNew
  <1>5. HubTypeOK'
    BY <1>1, <1>2, <1>3, <1>4 DEF HubInv, HubTypeOK, Handler, Stages, ApplyNew
  <1>6. ReceiptPerAppliedBatch'
    <2>1. receipts' = {AckFor(applied'[i]) : i \in DOMAIN applied'}
      BY <1>2, <1>4 DEF HubInv, ReceiptPerAppliedBatch
    <2>2. ASSUME NEW i \in 1..Len(applied) PROVE applied[i].batch # env.batch
      <3>1. AckFor(applied[i]) \in receipts
        BY <1>2 DEF HubInv, ReceiptPerAppliedBatch
      <3>2. AckFor(applied[i]).batch = applied[i].batch
        BY DEF AckFor
      <3> QED BY <3>1, <3>2 DEF ApplyNew
    <2>3. \A i, j \in 1..Len(applied) : applied[i].batch = applied[j].batch => i = j
      BY <1>2 DEF HubInv, ReceiptPerAppliedBatch
    <2>4. ASSUME NEW i \in DOMAIN applied', NEW j \in DOMAIN applied',
                 applied'[i].batch = applied'[j].batch
          PROVE  i = j
      <3>1. Len(applied) \in Nat
        BY <1>2
      <3>2. CASE i \in 1..Len(applied) /\ j \in 1..Len(applied)
        BY <3>2, <1>2, <2>3, <2>4
      <3>3. CASE i \in 1..Len(applied) /\ j = Len(applied) + 1
        BY <3>3, <1>2, <2>2, <2>4
      <3>4. CASE i = Len(applied) + 1 /\ j \in 1..Len(applied)
        BY <3>4, <1>2, <2>2, <2>4
      <3>5. CASE i = Len(applied) + 1 /\ j = Len(applied) + 1
        BY <3>5
      <3> QED BY <3>1, <3>2, <3>3, <3>4, <3>5, <1>2
    <2> QED BY <2>1, <2>4 DEF ReceiptPerAppliedBatch
  <1>7. AnswerNamesItsDevice'
    BY <1>1, <1>3, <1>4 DEF HubInv, HubTypeOK, AnswerNamesItsDevice, AckFor
  <1>8. \A d \in Conns : handler'[d].stage # "idle" => handler'[d].env \in Requests
    BY <1>1, <1>3 DEF HubInv, HubTypeOK
  <1> QED BY <1>5, <1>6, <1>7, <1>8 DEF HubInv

\* A replay answers with the stored receipt, and only to the device it names.
LEMMA ReplayKeepsInv ==
  ASSUME HubInv, NEW c \in Conns, Replay(c)
  PROVE  HubInv'
  <1> DEFINE env == handler[c].env
  <1>1. env \in Requests /\ UNCHANGED <<receipts, applied, revoked>>
    BY DEF HubInv, Replay
  <1>2. PICK r \in receipts :
            /\ r.batch = env.batch
            /\ IF r.device = env.device
               THEN Reach(c, "answered", r) ELSE Reach(c, "refused", NoAck)
    BY DEF Replay
  <1>3. CASE r.device = env.device
    <2>1. handler' = [handler EXCEPT
              ![c] = [stage |-> "answered", env |-> env, ack |-> r]]
      BY <1>2, <1>3 DEF Reach
    <2>2. HubTypeOK'
      BY <1>1, <2>1 DEF HubInv, HubTypeOK, Handler, Stages
    <2>3. ReceiptPerAppliedBatch'
      BY <1>1 DEF HubInv, ReceiptPerAppliedBatch
    <2>4. AnswerNamesItsDevice'
      BY <1>1, <1>2, <1>3, <2>1 DEF HubInv, HubTypeOK, AnswerNamesItsDevice
    <2>5. \A d \in Conns : handler'[d].stage # "idle" => handler'[d].env \in Requests
      BY <1>1, <2>1 DEF HubInv, HubTypeOK
    <2> QED BY <2>2, <2>3, <2>4, <2>5 DEF HubInv
  <1>4. CASE r.device # env.device
    <2> DEFINE h == [stage |-> "refused", env |-> env, ack |-> NoAck]
    <2>1. handler' = [handler EXCEPT ![c] = h] /\ h \in Handler
      BY <1>1, <1>2, <1>4 DEF Reach, Handler, Stages
    <2> QED BY <1>1, <2>1, NoAnswerKeepsInv DEF HubInv, HubTypeOK
  <1> QED BY <1>3, <1>4

\* The rest of a handler: receiving, authenticating, failing and closing.
LEMMA QuietStepsKeepInv ==
  ASSUME HubInv, NEW c \in Conns,
         \/ \E env \in Requests : Receive(c, env)
         \/ Authenticate(c)
         \/ Fail(c)
         \/ Close(c)
  PROVE  HubInv'
  <1>1. /\ revoked' \subseteq Devices
        /\ UNCHANGED <<receipts, applied>>
    BY DEF HubInv, HubTypeOK, Receive, Authenticate, Fail, Close
  <1>2. ASSUME NEW env \in Requests, Receive(c, env) PROVE HubInv'
    <2> DEFINE h == [stage |-> "received", env |-> env, ack |-> NoAck]
    <2>1. handler' = [handler EXCEPT ![c] = h] /\ h \in Handler
      BY <1>2 DEF Receive, Handler, Stages
    <2> QED BY <1>1, <2>1, NoAnswerKeepsInv
  <1>3. ASSUME NEW stage \in {"refused", "authenticated"}, Reach(c, stage, NoAck),
               handler[c].env \in Requests
        PROVE  HubInv'
    <2> DEFINE h == [stage |-> stage, env |-> handler[c].env, ack |-> NoAck]
    <2>1. handler' = [handler EXCEPT ![c] = h] /\ h \in Handler
      BY <1>3 DEF Reach, Handler, Stages
    <2> QED BY <1>1, <1>3, <2>1, NoAnswerKeepsInv
  <1>4. CASE Authenticate(c)
    BY <1>3, <1>4 DEF Authenticate, HubInv
  <1>5. CASE Fail(c)
    BY <1>3, <1>5 DEF Fail, HubInv
  <1>6. CASE Close(c)
    <2>1. handler' = [handler EXCEPT ![c] = Idle] /\ Idle \in Handler
      BY <1>6 DEF Close, Idle, Handler, Stages
    <2>2. Idle.stage = "idle"
      BY DEF Idle
    <2> QED BY <1>1, <2>1, <2>2, NoAnswerKeepsInv
  <1> QED BY <1>2, <1>4, <1>5, <1>6

\* Every step of the endpoint keeps the invariant.
LEMMA HubInvNext == HubInv /\ [HubNext]_hubVars => HubInv'
  <1> SUFFICES ASSUME HubInv, [HubNext]_hubVars PROVE HubInv'
    OBVIOUS
  <1>1. ASSUME NEW d \in Devices, Revoke(d) PROVE HubInv'
    BY <1>1 DEF Revoke, HubInv, HubTypeOK, ReceiptPerAppliedBatch, AnswerNamesItsDevice
  <1>2. CASE UNCHANGED hubVars
    BY <1>2 DEF hubVars, HubInv, HubTypeOK, ReceiptPerAppliedBatch, AnswerNamesItsDevice
  <1> QED
    BY <1>1, <1>2, ApplyNewKeepsInv, ReplayKeepsInv, QuietStepsKeepInv DEF HubNext, Handle

\* For any connections, devices and requests: each batch id is applied at most
\* once and has a receipt exactly when it was applied (ApplyIngestV2).
THEOREM ReceiptsAreExact == HubSpec => []ReceiptPerAppliedBatch
  <1>1. HubInv => ReceiptPerAppliedBatch
    BY DEF HubInv
  <1> QED BY <1>1, HubInvInit, HubInvNext, PTL DEF HubSpec, hubVars

\* For any connections, devices and requests: no device is acknowledged on a
\* batch that another device delivered (ErrIngestReceiptConflict).
THEOREM AnswersNameTheirDevice == HubSpec => []AnswerNamesItsDevice
  <1>1. HubInv => AnswerNamesItsDevice
    BY DEF HubInv
  <1> QED BY <1>1, HubInvInit, HubInvNext, PTL DEF HubSpec, hubVars
==============================================================================
