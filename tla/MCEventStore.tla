---------------------------- MODULE MCEventStore ----------------------------
(* Two deployments of EventStore.                                           *)
(*   forks: three copies of one Codex generation (ids 1 to 3), two of them  *)
(* with the same time stamp, and an event without a key (id 4), over        *)
(* databases written before dedup_key existed.                              *)
(*   merge: one request (id 5) seen by the proxy, by the log of the machine *)
(* that ran it and by a mirror of that log, with evidence of every rank.    *)
EXTENDS EventStore

CONSTANTS k, dev, mirror

MCProviders == {"", "openai", "anthropic", "anthropic-oauth", "anthropic-api", "relay"}

MCTS == <<2, 2, 1, 1, 1>>
MCKey == <<k, k, k, NoKey, NoKey>>

NoColumns == [c \in Columns |-> Empty]

BatchesOf(observations, n) == UNION {[1..m -> observations] : m \in 1..n}

ForkObservations ==
    {[id |-> i, device |-> dev, source |-> "codex", provider |-> "openai",
      cols |-> [c \in Columns |-> IF i < 3 THEN g ELSE Empty]] :
        i \in 1..4, g \in {0, 1}}

LegacyRow(i) ==
    [ts |-> MCTS[i], key |-> NoKey, device |-> dev, origin |-> "observed",
     source |-> "codex", provider |-> "bedrock", cols |-> NoColumns]

ForkLegacy ==
    {[i \in Ids |-> IF i \in S THEN LegacyRow(i) ELSE Absent] : S \in SUBSET {1, 2, 3}}

MergeObservations ==
    {[id |-> 5, device |-> d, source |-> s, provider |-> p,
      cols |-> [c \in Columns |-> IF (c \in TextColumns) = (s = "proxy") THEN Empty
                                  ELSE IF d = dev THEN 1
                                  ELSE IF c = "cwd" THEN Empty ELSE 2]] :
        d \in {dev, mirror}, s \in {"proxy", "claude-code"},
        p \in MCProviders \ {"openai"}}

MCTraffic == [forks |-> BatchesOf(ForkObservations, 3),
              merge |-> BatchesOf(MergeObservations, 2)]

MCLegacy == [forks |-> ForkLegacy, merge |-> {[i \in Ids |-> Absent]}]
=============================================================================
