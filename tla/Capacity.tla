------------------------------ MODULE Capacity ------------------------------
(***************************************************************************)
(* Quota readings and the calibration learned from them                    *)
(* (internal/store/quota.go, capacity.go; startup in                       *)
(* internal/server/windows.go).  A reading is stored in a transaction and  *)
(* observed after its commit, by a goroutine that reads the window's peak  *)
(* and token count and then writes; a restart loses the observers and      *)
(* starts a backfill from the stored readings.  Any of these statements    *)
(* may err: the error is logged and what it was about is given up.         *)
(***************************************************************************)
EXTENDS Identities

CONSTANTS
    MinPeak,         \* capacityMinPeak: the percentage worth backfilling from
    BackfillWindow,  \* capacityBackfillWindow, 30 days
    PanelWindow      \* how far back the panel looks for readings, 14 days

VARIABLES
    spent,      \* subscription events by what counts here: [reset, ts]
    capacity,   \* table quota_capacity: reset (in minutes) -> [peak, tokens]
    observers,  \* observations between commit and write
    backfill,   \* the startup backfill: not begun, and the peaks it has left
    missed      \* history: the looks that an error, the age limit or a window
                \* without tokens kept from teaching anything

capacityVars == <<spent, capacity, observers, backfill, missed>>

\* What a reading says, whoever it is filed under.
Look(q) == [at |-> q.at, reset |-> q.reset, percent |-> q.percent]

\* observed_at >= now - window.
Within(q, window) == q.at + window >= clock

\* The looks of these readings that no observation is going to learn from.
Unobserved(rows) ==
    {Look(q) : q \in {r \in rows : \A o \in observers : Look(o.row) # Look(r)}}

\* subscriptionTokens, up to an instant.
SubscriptionTokens(reset, upto) ==
    Cardinality({e \in spent : e.reset = reset /\ e.ts <= upto})

\* An event reaches the hub, perhaps after readings that were taken later.
Spend(reset, ts) ==
    /\ spent' = spent \cup {[reset |-> reset, ts |-> ts]}
    /\ UNCHANGED <<capacity, observers, backfill, missed>>

\* Mutant: the newest look, whatever window it is about.
NewestLook(q, r) == q.at >= r.at

\* The order of LatestQuotas: the newest window by its hour, then the look.
Outranks(q, r) ==
    \/ q.reset \div 60 > r.reset \div 60
    \/ q.reset \div 60 = r.reset \div 60 /\ q.at >= r.at

\* LatestQuotas: the reading the panel shows for a device, if there is one.
LatestQuotas(device) ==
    LET recent == {q \in QuotasOf(device) : Within(q, PanelWindow)}
    IN  {q \in recent : \A r \in recent : Outranks(q, r)}

\* INSERT OR IGNORE: the key is the device and the time of the look.
NewKey(q) == ~ \E r \in quotas : r.device = q.device /\ r.at = q.at

\* insertQuotasTx, in the transaction of a v2 batch: nothing is observed.  (A
\* look at a window without tokens would have taught nothing anyway.)
InsertQuotasTx(q) ==
    /\ NewKey(q)
    /\ quotas' = quotas \cup {q}
    /\ missed' = IF SubscriptionTokens(q.reset, clock) = 0
                 THEN missed \cup {Look(q)} ELSE missed
    /\ UNCHANGED <<events, labels, merges, gone>>
    /\ UNCHANGED <<spent, capacity, observers, backfill>>

\* InsertQuotas, up to the commit: only fresh rows are observed.
InsertQuotas(q) ==
    /\ NewKey(q)
    /\ quotas' = quotas \cup {q}
    /\ observers' = observers \cup {[row |-> q, now |-> clock, pc |-> "read", tokens |-> 0]}
    /\ UNCHANGED <<events, labels, merges, gone>>
    /\ UNCHANGED <<spent, capacity, backfill, missed>>

\* The WHERE of ObserveCapacity's upsert, and the check before the token scan.
RaisesPeak(reset, percent) ==
    reset \in DOMAIN capacity => percent > capacity[reset].peak

\* Mutant: the upsert replaces whatever is there.
LastObserved(row, tokens) ==
    capacity' = Upsert(capacity, row.reset, [peak |-> row.percent, tokens |-> tokens])

\* ObserveCapacity, one statement.
ObserveCapacity(row, tokens) ==
    capacity' = IF RaisesPeak(row.reset, row.percent)
                THEN Upsert(capacity, row.reset, [peak |-> row.percent, tokens |-> tokens])
                ELSE capacity

\* ObserveCapacityFromQuota, its reads: a reading at or below the peak is done,
\* and one that would raise it needs tokens to be a sample.
ReadPeak(o) ==
    LET tokens == SubscriptionTokens(o.row.reset, o.now)
        raises == RaisesPeak(o.row.reset, o.row.percent)
        rest == observers \ {o}
    IN  /\ o.pc = "read"
        /\ observers' = IF raises /\ tokens > 0
                        THEN rest \cup {[o EXCEPT !.pc = "write", !.tokens = tokens]}
                        ELSE rest
        /\ missed' = IF raises /\ tokens = 0 THEN missed \cup {Look(o.row)} ELSE missed
        /\ UNCHANGED <<spent, capacity, backfill>>

WritePeak(o) ==
    /\ o.pc = "write"
    /\ ObserveCapacity(o.row, o.tokens)
    /\ observers' = observers \ {o}
    /\ UNCHANGED <<spent, backfill, missed>>

\* One of ObserveCapacityFromQuota's statements errs: InsertQuotas logs it and
\* the sample is lost ("slightly less sharp").
DropObservation(o) ==
    /\ observers' = observers \ {o}
    /\ missed' = missed \cup {Look(o.row)}
    /\ UNCHANGED <<spent, capacity, backfill>>

\* The row_number() = 1 of each window: of the readings the query reaches back
\* to, the highest, and of those the earliest.
Peaks ==
    LET worth == {q \in quotas : q.percent >= MinPeak /\ Within(q, BackfillWindow)}
        before(q, r) == q.percent > r.percent
                            \/ (q.percent = r.percent /\ q.at <= r.at)
    IN  {q \in worth : \A r \in worth : r.reset = q.reset => before(q, r)}

\* BackfillCapacity's query; of readings equal in both, any one.  What it reaches
\* has a new chance, and for older readings it was the last one.
BeginBackfill ==
    LET old == {q \in quotas : ~Within(q, BackfillWindow)}
    IN  /\ backfill.due
        /\ \E todo \in SUBSET Peaks :
            /\ \A p \in Peaks : \E q \in todo : q.reset = p.reset
            /\ \A p, q \in todo : p.reset = q.reset => p = q
            /\ backfill' = [due |-> FALSE, todo |-> todo]
        /\ missed' = {l \in missed : ~Within(l, BackfillWindow)} \cup Unobserved(old)
        /\ UNCHANGED <<spent, capacity, observers>>

\* The readings the backfill answers for with this peak.
Behind(p) == {q \in quotas : q.reset = p.reset /\ q.percent <= p.percent}

\* Its loop: the tokens up to the peak's look.  A window without any is skipped,
\* with the lower looks of it that may have had tokens.
BackfillCapacity(p) ==
    LET tokens == SubscriptionTokens(p.reset, p.at)
    IN  /\ p \in backfill.todo
        /\ backfill' = [backfill EXCEPT !.todo = @ \ {p}]
        /\ IF tokens = 0
           THEN missed' = missed \cup Unobserved(Behind(p)) /\ UNCHANGED capacity
           ELSE ObserveCapacity(p, tokens) /\ UNCHANGED missed
        /\ UNCHANGED <<spent, observers>>

\* The query or a statement of the loop errs: the backfill returns, and what it
\* had left is given up until the next start.
BackfillErrs ==
    LET left == IF backfill.due THEN quotas ELSE UNION {Behind(p) : p \in backfill.todo}
    IN  /\ backfill.due \/ backfill.todo # {}
        /\ backfill' = [due |-> FALSE, todo |-> {}]
        /\ missed' = missed \cup Unobserved(left)
        /\ UNCHANGED <<spent, capacity, observers>>

\* The hub stops and starts again: New starts the backfill in the background.
Restart ==
    /\ observers' = {}
    /\ backfill' = [due |-> TRUE, todo |-> {}]
    /\ UNCHANGED <<spent, capacity, missed>>
=============================================================================
