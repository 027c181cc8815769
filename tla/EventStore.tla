----------------------------- MODULE EventStore -----------------------------
(***************************************************************************)
(* The hub's events table (internal/store/store.go, insertEventsFromTx):   *)
(* the one place where every channel's observations meet (v1 and v2        *)
(* ingest, the hub's own collector, the proxy, SSH mirrors).  A batch is   *)
(* one transaction.  A new event_id is inserted; an event_id that is       *)
(* already there is merged column by column; two event_ids with the same   *)
(* dedup_key are copies of one generation, of which the earliest stays.    *)
(*                                                                         *)
(* The merge is gated (ADR-0030): the rows of the batch's ids are read     *)
(* once, before the batch, and a statement is skipped when that early copy *)
(* says it would change nothing.                                           *)
(***************************************************************************)
EXTENDS Integers, Sequences, FiniteSets, FiniteSetsExt

CONSTANTS
    Ids,          \* event ids: integers, ordered as the strings are
    TS,           \* the time stamp of each id's event
    Key,          \* its dedup_key, NoKey for sources that have none
    NoKey,
    NumColumns,   \* gen_ms, ttft_ms
    TextColumns,  \* session_id, cwd, repo, git_branch, app_version
    LogColumns,   \* duration_ms, which only a log may fill
    Devices, Sources, Providers, Values,  \* what observations hold
    Deployments,  \* hubs that are told different things
    Traffic,      \* per deployment: the batches its channels can report
    Legacy        \* per deployment: tables its database may start with

VARIABLES
    deployment, \* the one this hub is, for ever
    events,     \* table events: per id its row, or Absent
    demoted,    \* app_settings has schema.provider_reclass_v1
    strongest,  \* history: per id, the best rank of evidence ever reported
    observed    \* history: the ids reported since dedup_key exists

vars == <<deployment, events, demoted, strongest, observed>>

Absent == [ts |-> -1]
Empty == 0
Origins == {"self", "observed"}
Columns == NumColumns \cup TextColumns \cup LogColumns

\* The labels of the disproved model-name rule: "Nothing currently produces
\* these labels", but old rows have them.
Fingerprints == {"bedrock", "vertex"}

Observation ==
    [id : Ids, device : Devices, source : Sources, provider : Providers,
     cols : [Columns -> Values]]

Row ==
    [ts : Nat, key : {NoKey} \cup {Key[id] : id \in Ids}, device : Devices,
     origin : Origins, source : Sources,
     provider : Providers \cup Fingerprints \cup {"unknown"},
     cols : [Columns -> Values]]

\* A table from before the column dedup_key has no key.
ASSUME EventStoreConstants ==
    /\ Ids \subseteq Int /\ \A id \in Ids : TS[id] \in Nat
    /\ Providers \cap Fingerprints = {}
    /\ \A d \in Deployments :
        /\ Traffic[d] \subseteq Seq(Observation)
        /\ \A t \in Legacy[d] :
            /\ t \in [Ids -> Row \cup {Absent}]
            /\ \A id \in Ids : t[id] # Absent => t[id].key = NoKey

Present(t) == {id \in Ids : t[id] # Absent}

\* ProviderRank: the evidence strength of a provider label.
ProviderRank(p) ==
    CASE p \in Fingerprints -> 0
      [] p \in {"unknown", ""} -> 1
      [] p \in {"anthropic", "openai"} -> 2
      [] p \in {"anthropic-oauth", "anthropic-api",
                "openai-chatgpt", "openai-api"} -> 3
      [] OTHER -> 4

\* The row that an inserted event becomes.
RowOf(e, origin) ==
    [ts |-> TS[e.id], key |-> Key[e.id], device |-> e.device, origin |-> origin,
     source |-> e.source, provider |-> e.provider, cols |-> e.cols]

\* keyOwnerSQL: the rows (at most one, by the unique index) holding e's key.
Owners(t, e) ==
    {id \in Present(t) : Key[e.id] # NoKey /\ t[id].key = Key[e.id]}

\* INSERT OR IGNORE: neither the primary key nor the dedup_key is taken.
Insertable(t, e) == t[e.id] = Absent /\ Owners(t, e) = {}

\* Mutant: the copy that arrived first stays.
LaterByArrival(e, owner) == e.id # owner

\* Mutant: no tie break between equal time stamps.
LaterUntied(e, owner) == TS[e.id] > TS[owner]

\* The event is a copy of the owner's generation: later, or at the same time
\* with the larger id.
Later(e, owner) ==
    \/ TS[e.id] > TS[owner]
    \/ TS[e.id] = TS[owner] /\ e.id > owner

-----------------------------------------------------------------------------
(* Merging an observation into its row.  p is the row as it was before the *)
(* batch, Absent if it was not there, and then nothing is skipped.         *)

Gate(p, worthIt) == p = Absent \/ worthIt

\* Does the observation bring a column of the group that r has empty?
Brings(r, e, group) ==
    \E c \in group : r.cols[c] = Empty /\ e.cols[c] # Empty

\* Mutant: a column that is already set is overwritten.
Overwrite(r, e, group) ==
    [r EXCEPT !.cols = [c \in Columns |->
        IF c \in group /\ e.cols[c] # Empty THEN e.cols[c] ELSE r.cols[c]]]

\* numFill, textFill, durFill: an empty column is filled, a set one stays.
Fill(r, e, group) ==
    [r EXCEPT !.cols = [c \in Columns |->
        IF c \in group /\ r.cols[c] = Empty THEN e.cols[c] ELSE r.cols[c]]]

FillGroup(r, e, p, group) ==
    IF Gate(p, p # Absent /\ Brings(p, e, group)) THEN Fill(r, e, group) ELSE r

\* Mutant: the gate asks for rows that already have a key.
KeyFillInverted(r, e, p) ==
    IF Gate(p, p # Absent /\ p.key # NoKey) /\ r.key = NoKey
    THEN [r EXCEPT !.key = Key[e.id]]
    ELSE r

\* keyFill: a row written before dedup_key existed receives it.
KeyFill(r, e, p) ==
    IF Gate(p, p # Absent /\ p.key = NoKey) /\ r.key = NoKey
    THEN [r EXCEPT !.key = Key[e.id]]
    ELSE r

\* Mutant: the last provider reported wins.
ReclassifyAlways(r, e, p) ==
    IF e.provider # "" THEN [r EXCEPT !.provider = e.provider] ELSE r

\* reclassify: only stronger evidence replaces the provider.
Reclassify(r, e, p) ==
    IF /\ e.provider # ""
       /\ Gate(p, p # Absent /\ ProviderRank(e.provider) > ProviderRank(p.provider))
       /\ ProviderRank(e.provider) > ProviderRank(r.provider)
    THEN [r EXCEPT !.provider = e.provider]
    ELSE r

\* reattribute: the first self-report takes the row from an observer.
Reattribute(r, e, p, origin) ==
    IF origin = "self" /\ Gate(p, p # Absent /\ p.origin = "observed") /\ r.origin = "observed"
    THEN [r EXCEPT !.device = e.device, !.origin = "self"]
    ELSE r

\* promote and durFill: the tool, not the proxy, is the source of a request.
Promote(r, e, p) ==
    IF e.source # "proxy" /\ Gate(p, p # Absent /\ p.source = "proxy") /\ r.source = "proxy"
    THEN [r EXCEPT !.source = e.source]
    ELSE r

LogFill(r, e, p) == IF e.source # "proxy" THEN FillGroup(r, e, p, LogColumns) ELSE r

\* All the statements of one observation of a row, in the code's order.
Merge(row, e, p, origin) ==
    LET known == KeyFill(row, e, p)
        class == Reclassify(known, e, p)
        owned == Reattribute(class, e, p, origin)
        nums  == FillGroup(owned, e, p, NumColumns)
        texts == FillGroup(nums, e, p, TextColumns)
    IN  LogFill(Promote(texts, e, p), e, p)

-----------------------------------------------------------------------------
(* One event of a batch: acc is the table and the report so far, prior the *)
(* rows as they were before the batch.                                     *)

Insert(acc, e, origin) ==
    [table |-> [acc.table EXCEPT ![e.id] = RowOf(e, origin)],
     inserted |-> acc.inserted + 1, mutated |-> TRUE]

\* Mutant: a dropped row is not reported.
DropUncounted(acc, id) == [acc EXCEPT !.table[id] = Absent]

\* dropCopy.  The report counts rows the table really lost.
Drop(acc, id) ==
    [table |-> [acc.table EXCEPT ![id] = Absent], inserted |-> acc.inserted,
     mutated |-> acc.mutated \/ acc.table[id] # Absent]

\* Updates of a row that is not there (dropped earlier in the batch) do nothing.
Update(acc, e, p, origin) ==
    IF acc.table[e.id] = Absent THEN acc
    ELSE LET row == Merge(acc.table[e.id], e, p, origin)
         IN  [table |-> [acc.table EXCEPT ![e.id] = row], inserted |-> acc.inserted,
              mutated |-> acc.mutated \/ row # acc.table[e.id]]

ApplyEvent(acc, e, p, origin) ==
    LET selfOwnsKey == p # Absent /\ Key[e.id] # NoKey /\ p.key = Key[e.id]
        owners == IF selfOwnsKey THEN {} ELSE Owners(acc.table, e) \ {e.id}
    IN  IF p = Absent /\ Insertable(acc.table, e) THEN Insert(acc, e, origin)
        ELSE IF owners = {} THEN Update(acc, e, p, origin)
        ELSE LET owner == CHOOSE id \in owners : TRUE
                 freed == Drop(acc, owner)
             IN  IF Later(e, owner) THEN Drop(acc, e.id)
                 ELSE IF Insertable(freed.table, e) THEN Insert(freed, e, origin)
                 ELSE Update(freed, e, p, origin)

\* insertEventsFromTx, with the given early copies of the rows.
ApplyWith(t, batch, origin, prior) ==
    LET after[n \in 0..Len(batch)] ==
            IF n = 0 THEN [table |-> t, inserted |-> 0, mutated |-> FALSE]
            ELSE ApplyEvent(after[n - 1], batch[n], prior[batch[n].id], origin)
    IN  after[Len(batch)]

Apply(t, batch, origin) == ApplyWith(t, batch, origin, t)

-----------------------------------------------------------------------------
Batches == Traffic[deployment]

Init ==
    /\ deployment \in Deployments
    /\ events \in Legacy[deployment]
    /\ demoted = FALSE
    /\ strongest = [id \in Ids |->
            IF events[id] = Absent THEN 0 ELSE ProviderRank(events[id].provider)]
    /\ observed = {}

\* Open: migrateLegacyFingerprintProviders clears the labels of the disproved
\* model-name rule, once; a crash may come between the update and the flag.
Migrate ==
    /\ ~demoted
    /\ events' = [id \in Ids |->
            IF events[id] # Absent /\ events[id].provider \in Fingerprints
            THEN [events[id] EXCEPT !.provider = "unknown"] ELSE events[id]]
    /\ strongest' = [id \in Ids |->
            IF events'[id] = events[id] THEN strongest[id] ELSE ProviderRank("unknown")]
    /\ demoted' \in BOOLEAN
    /\ UNCHANGED <<deployment, observed>>

\* InsertEventsFrom, InsertEvents, or ApplyIngestV2 with an events payload.
InsertEvents(batch, origin) ==
    /\ demoted
    /\ events' = Apply(events, batch, origin).table
    /\ strongest' = [id \in Ids |-> Max({strongest[id]} \cup
            {ProviderRank(batch[i].provider) : i \in {j \in DOMAIN batch : batch[j].id = id}})]
    /\ observed' = observed \cup {batch[i].id : i \in DOMAIN batch}
    /\ UNCHANGED <<deployment, demoted>>

Next ==
    \/ Migrate
    \/ \E batch \in Batches, origin \in Origins : InsertEvents(batch, origin)

Spec == Init /\ [][Next]_vars

-----------------------------------------------------------------------------
(* Properties.                                                             *)

\* "Every skip is provably a no-op" (comment in insertEventsFromTx): on every
\* reachable table and for every batch, repeats and copies within the batch
\* included, the gated merge writes and reports what the ungated one does.
GatesAreNoOps ==
    \A batch \in Batches, origin \in Origins :
        Apply(events, batch, origin)
            = ApplyWith(events, batch, origin, [id \in Ids |-> Absent])

\* Of the observed copies of one generation exactly one row is kept, and it is
\* the earliest, whatever the order of arrival and however the copies are
\* spread over batches (ADR-0020, ADR-0041).
EarliestCopySurvives ==
    \A id \in observed :
        LET copies == {c \in observed : Key[c] # NoKey /\ Key[c] = Key[id]}
            first == {c \in copies : \A d \in copies \ {c} : ~Later([id |-> c], d)}
        IN  IF Key[id] = NoKey THEN events[id] # Absent
            ELSE /\ copies \cap Present(events) = first
                 /\ \A c \in first : events[c].key = Key[id]

\* Ingestion is idempotent (ADR-0004): a batch delivered again changes nothing
\* and reports nothing, so a re-sent envelope, a rescan or a replayed spool
\* cannot move a count.
ReplayChangesNothing ==
    \A batch \in Batches, origin \in Origins :
        LET once == Apply(events, batch, origin).table
        IN  Apply(once, batch, origin)
                = [table |-> once, inserted |-> 0, mutated |-> FALSE]

\* Subscribers are notified exactly when the table changed: the report says
\* "mutated" if and only if a row was added, lost or altered.
MutatedIffChanged ==
    \A batch \in Batches, origin \in Origins :
        LET res == Apply(events, batch, origin)
        IN  res.mutated <=> res.table # events

\* The billing channel settles on the strongest evidence ever reported for the
\* row, in whatever order it arrived (ADR-0018).
StrongestEvidenceWins ==
    \A id \in Present(events) : ProviderRank(events[id].provider) = strongest[id]

\* A row only gains: no set column, self-reported device, tool source or key is
\* overwritten by a later observation as long as the row exists.
RowsOnlyGain ==
    [][\A id \in Present(events) \cap Present(events') :
        LET r == events[id] n == events'[id]
        IN  /\ \A c \in Columns : r.cols[c] # Empty => n.cols[c] = r.cols[c]
            /\ r.origin = "self" => n.origin = "self" /\ n.device = r.device
            /\ r.source # "proxy" => n.source = r.source
            /\ r.key # NoKey => n.key = r.key]_vars
=============================================================================
