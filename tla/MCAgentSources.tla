--------------------------- MODULE MCAgentSources ---------------------------
(* An agent of either protocol: v1 with the proxy, behind a relay or not;  *)
(* v2 without it.  A pass over the logs repeats an id and needs two        *)
(* envelopes; a quota reading fits one.                                    *)
EXTENDS AgentSources

CONSTANTS x, y, z

World(protocol, proxy, until, relay) ==
    [protocol |-> protocol, proxy |-> proxy, until |-> until,
     relay |-> relay]

BothProtocols ==
    {World(2, FALSE, 1, "none"), World(1, TRUE, 0, "none"),
     World(1, FALSE, 2, "none"), World(1, TRUE, 0, "refuses")}
ProxyOnV2 == {World(2, TRUE, 0, "none")}

OneScan == {<<x, x, y, z>>}

Item(id) == [id |-> id, device |-> Device]

\* What the sources of the v2 agent put into one envelope, and the pass that
\* is too large for one.
MCPayloads ==
    {<<Item(x)>>, <<Item(y), Item(z)>>} \cup {<<Item(t)>> : t \in 1..2}
WholeScan == <<Item(x), Item(y), Item(z)>>

MCBytes == [p \in Payloads \cup {WholeScan} |-> Len(p)]
=============================================================================
