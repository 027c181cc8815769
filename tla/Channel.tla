------------------------------- MODULE Channel -------------------------------
(***************************************************************************)
(* What the outbox, the uploaders and the hub promise together: a channel  *)
(* that delivers every message exactly once and in the order it was        *)
(* accepted.  One delivery may hand over several messages at once.         *)
(***************************************************************************)
EXTENDS Integers, Sequences

CONSTANT Messages

VARIABLES
    sent,    \* messages accepted from the producer
    rcvd     \* messages applied at the consumer

channelVars == <<sent, rcvd>>

ChannelInit == sent = <<>> /\ rcvd = <<>>

\* One or more messages are accepted, behind those accepted before.
Send ==
    /\ sent' \in Seq(Messages)
    /\ Len(sent) < Len(sent')
    /\ \A i \in 1..Len(sent) : sent'[i] = sent[i]
    /\ UNCHANGED rcvd

\* The next message reaches the consumer.
Deliver ==
    /\ Len(rcvd) < Len(sent)
    /\ rcvd' = Append(rcvd, sent[Len(rcvd) + 1])
    /\ UNCHANGED sent

ChannelNext == Send \/ Deliver

ChannelSpec == ChannelInit /\ [][ChannelNext]_channelVars
=============================================================================
