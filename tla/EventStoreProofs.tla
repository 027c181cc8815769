-------------------------- MODULE EventStoreProofs --------------------------
(***************************************************************************)
(* The events table is merged correctly for every batch of every length,   *)
(* and for every set of ids, keys, columns and labels.                     *)
(***************************************************************************)
EXTENDS EventStore, OrderLemmas

Rank(p) == ProviderRank(p)

(***************************************************************************)
(* What all the statements of one observation make of a row, gates aside.  *)
(***************************************************************************)
Filled(r, e, c) ==
    /\ r.cols[c] = Empty
    /\ \/ c \in NumColumns \cup TextColumns
       \/ c \in LogColumns /\ e.source # "proxy"

Merged(r, e, origin) ==
    [ts |-> r.ts,
     key |-> IF r.key = NoKey THEN Key[e.id] ELSE r.key,
     device |-> IF origin = "self" /\ r.origin = "observed" THEN e.device ELSE r.device,
     origin |-> IF origin = "self" /\ r.origin = "observed" THEN "self" ELSE r.origin,
     source |-> IF e.source # "proxy" /\ r.source = "proxy" THEN e.source ELSE r.source,
     provider |-> IF e.provider # "" /\ Rank(e.provider) > Rank(r.provider)
                  THEN e.provider ELSE r.provider,
     cols |-> [c \in Columns |-> IF Filled(r, e, c) THEN e.cols[c] ELSE r.cols[c]]]

(***************************************************************************)
(* A row that later observations were merged into: what was set stays.     *)
(***************************************************************************)
Gains(r, n) ==
    /\ n.ts = r.ts
    /\ r.key # NoKey => n.key = r.key
    /\ \/ n.origin = r.origin /\ n.device = r.device
       \/ r.origin = "observed" /\ n.origin = "self"
    /\ n.source = r.source \/ (r.source = "proxy" /\ n.source # "proxy")
    /\ n.provider = r.provider \/ Rank(n.provider) > Rank(r.provider)
    /\ \A c \in Columns : r.cols[c] # Empty => n.cols[c] = r.cols[c]

\* The row has nothing to learn from the observation.
Absorbed(r, e, origin) == Merged(r, e, origin) = r

-----------------------------------------------------------------------------
(* Rows.                                                                   *)

\* The rank of any label is a number up to 4; only a fingerprint has rank 0.
LEMMA RankIsNat ==
    ASSUME NEW p
    PROVE  Rank(p) \in Nat /\ (p \notin Fingerprints => Rank(p) >= 1)
                /\ (p = "" => Rank(p) = 1)
  <1> DEFINE none == p \in {"unknown", ""}
             endpoint == p \in {"anthropic", "openai"}
             billing == p \in {"anthropic-oauth", "anthropic-api",
                               "openai-chatgpt", "openai-api"}
             print == p \in Fingerprints
  <1>1. Rank(p) = CASE print -> 0 [] none -> 1 [] endpoint -> 2 [] billing -> 3 [] OTHER -> 4
    BY DEF Rank, ProviderRank
  <1>2. ~(print /\ none) /\ ~(print /\ endpoint) /\ ~(print /\ billing)
    BY DEF Fingerprints
  <1>3. ~(none /\ endpoint) /\ ~(none /\ billing) /\ ~(endpoint /\ billing)
    OBVIOUS
  <1>4. p = "" => none
    OBVIOUS
  <1> HIDE DEF print, none, endpoint, billing
  <1>5. /\ Rank(p) \in Nat /\ (~print => Rank(p) >= 1) /\ (none => Rank(p) = 1)
    BY <1>1, <1>2, <1>3
  <1> QED BY <1>4, <1>5 DEF print

\* A row is not the absence of one.
LEMMA RowIsPresent ==
    ASSUME NEW r \in Row
    PROVE  r # Absent
  BY DEF Row, Absent

\* Two rows are equal if all of their columns are.
LEMMA RowsEqual ==
    ASSUME NEW r \in Row, NEW n \in Row, r.ts = n.ts, r.key = n.key, r.device = n.device,
           r.origin = n.origin, r.source = n.source, r.provider = n.provider,
           \A c \in Columns : r.cols[c] = n.cols[c]
    PROVE  r = n
  <1>1. r.cols \in [Columns -> Values] /\ n.cols \in [Columns -> Values]
    BY DEF Row
  <1>2. r.cols = n.cols
    BY <1>1
  <1> QED BY <1>2 DEF Row

\* Merging makes a row.
LEMMA MergedIsRow ==
    ASSUME NEW r \in Row, NEW e \in Observation, NEW origin \in Origins
    PROVE  Merged(r, e, origin) \in Row
  <1>1. \A c \in Columns : r.cols[c] \in Values /\ e.cols[c] \in Values
    BY DEF Row, Observation
  <1>2. [c \in Columns |-> IF Filled(r, e, c) THEN e.cols[c] ELSE r.cols[c]]
            \in [Columns -> Values]
    BY <1>1
  <1>3. (IF r.key = NoKey THEN Key[e.id] ELSE r.key) \in {NoKey} \cup {Key[id] : id \in Ids}
    BY DEF Row, Observation
  <1> HIDE DEF Filled
  <1> QED BY <1>2, <1>3 DEF Merged, Row, Observation, Origins

\* A new row is one, and takes nothing more from its observation.
LEMMA RowOfIsRow ==
    ASSUME NEW e \in Observation, NEW origin \in Origins
    PROVE  /\ RowOf(e, origin) \in Row
           /\ Absorbed(RowOf(e, origin), e, origin)
           /\ RowOf(e, origin).key = Key[e.id] /\ RowOf(e, origin).provider = e.provider
  <1> DEFINE r == RowOf(e, origin)
  <1>1. TS[e.id] \in Nat
    BY EventStoreConstants DEF Observation
  <1>2. r \in Row
    BY <1>1 DEF RowOf, Row, Observation
  <1>3. /\ r.ts = TS[e.id] /\ r.key = Key[e.id] /\ r.device = e.device /\ r.origin = origin
        /\ r.source = e.source /\ r.provider = e.provider /\ r.cols = e.cols
    BY DEF RowOf
  <1>4. Merged(r, e, origin) \in Row
    BY <1>2, MergedIsRow
  <1> HIDE DEF r
  <1>5. /\ Merged(r, e, origin).ts = r.ts /\ Merged(r, e, origin).key = r.key
        /\ Merged(r, e, origin).device = r.device /\ Merged(r, e, origin).origin = r.origin
        /\ Merged(r, e, origin).source = r.source /\ Merged(r, e, origin).provider = r.provider
        /\ \A c \in Columns : Merged(r, e, origin).cols[c] = r.cols[c]
    BY <1>3, RankIsNat DEF Merged
  <1>6. Absorbed(r, e, origin)
    BY <1>2, <1>4, <1>5, RowsEqual DEF Absorbed
  <1> QED BY <1>2, <1>3, <1>6 DEF r

\* Merging gains, and does so once.
LEMMA MergedGains ==
    ASSUME NEW r \in Row, NEW e \in Observation, NEW origin \in Origins
    PROVE  /\ Gains(r, Merged(r, e, origin))
           /\ Absorbed(Merged(r, e, origin), e, origin)
  <1> DEFINE n == Merged(r, e, origin)
             m == Merged(n, e, origin)
  <1>1. n \in Row /\ m \in Row
    BY MergedIsRow
  <1>2. /\ n.ts = r.ts
        /\ n.key = IF r.key = NoKey THEN Key[e.id] ELSE r.key
        /\ n.device = IF origin = "self" /\ r.origin = "observed" THEN e.device ELSE r.device
        /\ n.origin = IF origin = "self" /\ r.origin = "observed" THEN "self" ELSE r.origin
        /\ n.source = IF e.source # "proxy" /\ r.source = "proxy" THEN e.source ELSE r.source
        /\ n.provider = IF e.provider # "" /\ Rank(e.provider) > Rank(r.provider)
                        THEN e.provider ELSE r.provider
        /\ \A c \in Columns : n.cols[c] = IF Filled(r, e, c) THEN e.cols[c] ELSE r.cols[c]
    BY DEF Merged
  <1>3. /\ m.ts = n.ts
        /\ m.key = IF n.key = NoKey THEN Key[e.id] ELSE n.key
        /\ m.device = IF origin = "self" /\ n.origin = "observed" THEN e.device ELSE n.device
        /\ m.origin = IF origin = "self" /\ n.origin = "observed" THEN "self" ELSE n.origin
        /\ m.source = IF e.source # "proxy" /\ n.source = "proxy" THEN e.source ELSE n.source
        /\ m.provider = IF e.provider # "" /\ Rank(e.provider) > Rank(n.provider)
                        THEN e.provider ELSE n.provider
        /\ \A c \in Columns : m.cols[c] = IF Filled(n, e, c) THEN e.cols[c] ELSE n.cols[c]
    BY DEF Merged
  <1> HIDE DEF n, m
  <1>4. Rank(e.provider) \in Nat /\ Rank(r.provider) \in Nat /\ Rank(n.provider) \in Nat
    BY RankIsNat
  <1>5. Gains(r, n)
    BY <1>2 DEF Gains, Filled
  <1>6. m.ts = n.ts /\ m.key = n.key /\ m.device = n.device /\ m.origin = n.origin
            /\ m.source = n.source
    BY <1>2, <1>3
  <1>7. m.provider = n.provider
    BY <1>2, <1>3, <1>4
  <1>8. \A c \in Columns : m.cols[c] = n.cols[c]
    BY <1>2, <1>3 DEF Filled
  <1>9. m = n
    BY <1>1, <1>6, <1>7, <1>8, RowsEqual
  <1> QED BY <1>5, <1>9 DEF Absorbed, n, m

\* Gaining is a partial order on rows.
LEMMA GainsOrder ==
    /\ \A r \in Row : Gains(r, r)
    /\ \A r, n, m \in Row : Gains(r, n) /\ Gains(n, m) => Gains(r, m)
    /\ \A r, n \in Row : Gains(r, n) /\ Gains(n, r) => r = n
  <1>1. \A r \in Row : r.origin \in {"self", "observed"} /\ Rank(r.provider) \in Nat
    BY RankIsNat DEF Row, Origins
  <1>2. ASSUME NEW r \in Row PROVE Gains(r, r)
    BY DEF Gains
  <1>3. ASSUME NEW r \in Row, NEW n \in Row, NEW m \in Row, Gains(r, n), Gains(n, m)
        PROVE  Gains(r, m)
    BY <1>1, <1>3 DEF Gains
  <1>4. ASSUME NEW r \in Row, NEW n \in Row, Gains(r, n), Gains(n, r)
        PROVE  r = n
    <2>1. r.ts = n.ts /\ r.key = n.key /\ r.device = n.device /\ r.origin = n.origin
              /\ r.source = n.source
      BY <1>4 DEF Gains
    <2>2. r.provider = n.provider
      BY <1>1, <1>4 DEF Gains
    <2>3. \A c \in Columns : r.cols[c] = n.cols[c]
      BY <1>4 DEF Gains
    <2> QED BY <2>1, <2>2, <2>3, RowsEqual
  <1> QED BY <1>2, <1>3, <1>4

\* What a row has absorbed it does not take again later.
LEMMA AbsorbedStays ==
    ASSUME NEW r \in Row, NEW n \in Row, NEW e \in Observation, NEW origin \in Origins,
           Gains(r, n), Absorbed(r, e, origin)
    PROVE  Absorbed(n, e, origin)
  <1> DEFINE a == Merged(r, e, origin)
             m == Merged(n, e, origin)
  <1>1. m \in Row /\ a = r
    BY MergedIsRow DEF Absorbed
  <1>2. /\ a.key = IF r.key = NoKey THEN Key[e.id] ELSE r.key
        /\ a.origin = IF origin = "self" /\ r.origin = "observed" THEN "self" ELSE r.origin
        /\ a.source = IF e.source # "proxy" /\ r.source = "proxy" THEN e.source ELSE r.source
        /\ a.provider = IF e.provider # "" /\ Rank(e.provider) > Rank(r.provider)
                        THEN e.provider ELSE r.provider
        /\ \A c \in Columns : a.cols[c] = IF Filled(r, e, c) THEN e.cols[c] ELSE r.cols[c]
    BY DEF Merged
  <1>3. /\ m.ts = n.ts
        /\ m.key = IF n.key = NoKey THEN Key[e.id] ELSE n.key
        /\ m.device = IF origin = "self" /\ n.origin = "observed" THEN e.device ELSE n.device
        /\ m.origin = IF origin = "self" /\ n.origin = "observed" THEN "self" ELSE n.origin
        /\ m.source = IF e.source # "proxy" /\ n.source = "proxy" THEN e.source ELSE n.source
        /\ m.provider = IF e.provider # "" /\ Rank(e.provider) > Rank(n.provider)
                        THEN e.provider ELSE n.provider
        /\ \A c \in Columns : m.cols[c] = IF Filled(n, e, c) THEN e.cols[c] ELSE n.cols[c]
    BY DEF Merged
  <1> HIDE DEF a, m
  <1>4. Rank(e.provider) \in Nat /\ Rank(r.provider) \in Nat /\ Rank(n.provider) \in Nat
    BY RankIsNat
  <1>5. m.ts = n.ts /\ m.key = n.key
    BY <1>1, <1>2, <1>3 DEF Gains
  <1>6. m.device = n.device /\ m.origin = n.origin
    BY <1>1, <1>2, <1>3 DEF Gains
  <1>7. m.source = n.source
    BY <1>1, <1>2, <1>3 DEF Gains
  <1>8. m.provider = n.provider
    <2> DEFINE named == e.provider # ""
    <2>1. /\ r.provider = IF named /\ Rank(e.provider) > Rank(r.provider)
                          THEN e.provider ELSE r.provider
          /\ m.provider = IF named /\ Rank(e.provider) > Rank(n.provider)
                          THEN e.provider ELSE n.provider
      BY <1>1, <1>2, <1>3
    <2> HIDE DEF named
    <2>2. named => Rank(e.provider) <= Rank(r.provider)
      <3>1. CASE r.provider = e.provider
        BY <1>4, <3>1
      <3> QED BY <1>4, <2>1, <3>1
    <2>3. Rank(r.provider) <= Rank(n.provider)
      <3>1. CASE n.provider = r.provider
        BY <1>4, <3>1
      <3> QED BY <1>4, <3>1 DEF Gains
    <2> QED BY <1>4, <2>1, <2>2, <2>3
  <1>9. \A c \in Columns : m.cols[c] = n.cols[c]
    BY <1>1, <1>2, <1>3, ZenonT(30) DEF Gains, Filled
  <1>10. m = n
    BY <1>1, <1>5, <1>6, <1>7, <1>8, <1>9, RowsEqual
  <1> QED BY <1>10 DEF Absorbed, m

\* The early copy of a row: it was not there, or has gained since.
EarlyCopy(p, r) == p = Absent \/ (p \in Row /\ Gains(p, r))

\* A row and its early copy, but for one column, which gains.
LEMMA EarlyCopyStays ==
    ASSUME NEW p, NEW r \in Row, NEW n \in Row, EarlyCopy(p, r), Gains(r, n)
    PROVE  EarlyCopy(p, n)
  BY GainsOrder DEF EarlyCopy

\* keyFill is skipped only for rows that have a key.
LEMMA KeyFillGate ==
    ASSUME NEW r \in Row, NEW e \in Observation, NEW p, EarlyCopy(p, r)
    PROVE  /\ KeyFill(r, e, p) \in Row
           /\ KeyFill(r, e, p) =
                IF r.key = NoKey THEN [r EXCEPT !.key = Key[e.id]] ELSE r
  <1>1. p \in Row => p # Absent
    BY RowIsPresent
  <1>2. Key[e.id] \in {NoKey} \cup {Key[id] : id \in Ids}
    BY DEF Observation
  <1>4. [r EXCEPT !.key = Key[e.id]] \in Row
    BY <1>2 DEF Row
  <1>5. CASE r.key = NoKey
    <2>1. Gate(p, p # Absent /\ p.key = NoKey)
      BY <1>1, <1>5 DEF EarlyCopy, Gains, Gate
    <2> QED BY <1>4, <1>5, <2>1 DEF KeyFill
  <1>6. CASE r.key # NoKey
    BY <1>6 DEF KeyFill
  <1> QED BY <1>5, <1>6

\* reclassify is skipped only for evidence that the row's outranks already.
LEMMA ReclassifyGate ==
    ASSUME NEW r \in Row, NEW e \in Observation, NEW p, EarlyCopy(p, r)
    PROVE  /\ Reclassify(r, e, p) \in Row
           /\ Reclassify(r, e, p) =
                IF e.provider # "" /\ Rank(e.provider) > Rank(r.provider)
                THEN [r EXCEPT !.provider = e.provider] ELSE r
  <1>1. p \in Row => p # Absent
    BY RowIsPresent
  <1>2. Rank(e.provider) \in Nat /\ Rank(r.provider) \in Nat /\ Rank(p.provider) \in Nat
    BY RankIsNat
  <1>4. [r EXCEPT !.provider = e.provider] \in Row
    BY DEF Row, Observation
  <1>5. CASE e.provider # "" /\ Rank(e.provider) > Rank(r.provider)
    <2>1. p # Absent => Rank(p.provider) <= Rank(r.provider)
      <3>1. CASE r.provider = p.provider
        BY <1>2, <3>1
      <3> QED BY <1>2, <3>1 DEF EarlyCopy, Gains
    <2>2. p # Absent => Rank(e.provider) > Rank(p.provider)
      <3>1. Rank(e.provider) > Rank(r.provider)
        BY <1>5
      <3> QED BY <1>2, <2>1, <3>1
    <2> QED BY <1>4, <1>5, <2>2 DEF Reclassify, Gate, Rank
  <1>6. CASE ~(e.provider # "" /\ Rank(e.provider) > Rank(r.provider))
    BY <1>6 DEF Reclassify, Rank
  <1> QED BY <1>5, <1>6

\* reattribute is skipped only for rows that reported themselves.
LEMMA ReattributeGate ==
    ASSUME NEW r \in Row, NEW e \in Observation, NEW p, NEW origin, EarlyCopy(p, r)
    PROVE  /\ Reattribute(r, e, p, origin) \in Row
           /\ Reattribute(r, e, p, origin) =
                IF origin = "self" /\ r.origin = "observed"
                THEN [r EXCEPT !.device = e.device, !.origin = "self"] ELSE r
  <1>1. p \in Row => p # Absent
    BY RowIsPresent
  <1>2. [r EXCEPT !.device = e.device, !.origin = "self"] \in Row
    BY DEF Row, Observation, Origins
  <1>3. CASE origin = "self" /\ r.origin = "observed"
    <2>1. Gate(p, p # Absent /\ p.origin = "observed")
      BY <1>1, <1>3 DEF EarlyCopy, Gains, Gate
    <2> QED BY <1>2, <1>3, <2>1 DEF Reattribute
  <1>4. CASE ~(origin = "self" /\ r.origin = "observed")
    BY <1>4 DEF Reattribute
  <1> QED BY <1>3, <1>4

\* promote is skipped only for rows that a tool owns.
LEMMA PromoteGate ==
    ASSUME NEW r \in Row, NEW e \in Observation, NEW p, EarlyCopy(p, r)
    PROVE  /\ Promote(r, e, p) \in Row
           /\ Promote(r, e, p) =
                IF e.source # "proxy" /\ r.source = "proxy"
                THEN [r EXCEPT !.source = e.source] ELSE r
  <1>1. p \in Row => p # Absent
    BY RowIsPresent
  <1>2. [r EXCEPT !.source = e.source] \in Row
    BY DEF Row, Observation
  <1>3. CASE e.source # "proxy" /\ r.source = "proxy"
    <2>1. Gate(p, p # Absent /\ p.source = "proxy")
      BY <1>1, <1>3 DEF EarlyCopy, Gains, Gate
    <2> QED BY <1>2, <1>3, <2>1 DEF Promote
  <1>4. CASE ~(e.source # "proxy" /\ r.source = "proxy")
    BY <1>4 DEF Promote
  <1> QED BY <1>3, <1>4

\* A fill is skipped only where the row has each column the observation brings.
LEMMA FillGate ==
    ASSUME NEW r \in Row, NEW e \in Observation, NEW p, EarlyCopy(p, r),
           NEW group \in SUBSET Columns
    PROVE  /\ FillGroup(r, e, p, group) \in Row
           /\ FillGroup(r, e, p, group) = Fill(r, e, group)
  <1> DEFINE cols == [c \in Columns |->
                        IF c \in group /\ r.cols[c] = Empty THEN e.cols[c] ELSE r.cols[c]]
  <1>1. p \in Row => p # Absent
    BY RowIsPresent
  <1>2. cols \in [Columns -> Values] /\ r.cols \in [Columns -> Values]
    BY DEF Row, Observation
  <1>3. Fill(r, e, group) = [r EXCEPT !.cols = cols]
    BY DEF Fill
  <1>4. Fill(r, e, group) \in Row
    <2> HIDE DEF cols
    <2> QED BY <1>2, <1>3 DEF Row
  <1>5. CASE Gate(p, p # Absent /\ Brings(p, e, group))
    BY <1>4, <1>5 DEF FillGroup
  <1>6. CASE ~Gate(p, p # Absent /\ Brings(p, e, group))
    <2>1. p \in Row /\ Gains(p, r) /\ ~Brings(p, e, group)
      BY <1>1, <1>6 DEF Gate, EarlyCopy
    <2>2. \A c \in Columns : cols[c] = r.cols[c]
      BY <2>1 DEF Brings, Gains
    <2>3. cols = r.cols
      <3> HIDE DEF cols
      <3> QED BY <1>2, <2>2
    <2>4. [r EXCEPT !.cols = r.cols] = r
      BY DEF Row
    <2> HIDE DEF cols
    <2> QED BY <1>3, <1>6, <2>3, <2>4 DEF FillGroup
  <1> QED BY <1>5, <1>6

\* A column is filled or stays.
LEMMA FillColumns ==
    ASSUME NEW r \in Row, NEW e \in Observation, NEW group
    PROVE  /\ Fill(r, e, group).ts = r.ts /\ Fill(r, e, group).key = r.key
           /\ Fill(r, e, group).device = r.device /\ Fill(r, e, group).origin = r.origin
           /\ Fill(r, e, group).source = r.source
           /\ Fill(r, e, group).provider = r.provider
           /\ \A c \in Columns : Fill(r, e, group).cols[c] =
                IF c \in group /\ r.cols[c] = Empty THEN e.cols[c] ELSE r.cols[c]
  BY DEF Fill, Row

\* "Every skip is provably a no-op": with or without the early copy, the
\* statements of an observation make the same of a row.
LEMMA GatesSkipNothing ==
    ASSUME NEW r \in Row, NEW e \in Observation, NEW origin \in Origins, NEW p, EarlyCopy(p, r)
    PROVE  Merge(r, e, p, origin) = Merged(r, e, origin)
  <1> DEFINE new   == Merged(r, e, origin)
             known == KeyFill(r, e, p)
             class == Reclassify(known, e, p)
             owned == Reattribute(class, e, p, origin)
             nums  == FillGroup(owned, e, p, NumColumns)
             texts == FillGroup(nums, e, p, TextColumns)
             tool  == Promote(texts, e, p)
             full  == LogFill(tool, e, p)
  <1>1. /\ new \in Row /\ new.ts = r.ts
        /\ new.key = IF r.key = NoKey THEN Key[e.id] ELSE r.key
        /\ new.device = IF origin = "self" /\ r.origin = "observed" THEN e.device ELSE r.device
        /\ new.origin = IF origin = "self" /\ r.origin = "observed" THEN "self" ELSE r.origin
        /\ new.source = IF e.source # "proxy" /\ r.source = "proxy" THEN e.source ELSE r.source
        /\ new.provider = IF e.provider # "" /\ Rank(e.provider) > Rank(r.provider)
                        THEN e.provider ELSE r.provider
        /\ \A c \in Columns : new.cols[c] = IF Filled(r, e, c) THEN e.cols[c] ELSE r.cols[c]
    BY MergedIsRow DEF Merged
  <1> HIDE DEF new
  <1>2. /\ known \in Row /\ EarlyCopy(p, known)
        /\ known.ts = r.ts /\ known.key = new.key /\ known.device = r.device
        /\ known.origin = r.origin /\ known.source = r.source
        /\ known.provider = r.provider /\ known.cols = r.cols
    <2>1. known \in Row /\ known = IF r.key = NoKey THEN [r EXCEPT !.key = Key[e.id]] ELSE r
      BY KeyFillGate
    <2>2. Gains(r, known)
      BY <2>1 DEF Gains, Row
    <2>3. EarlyCopy(p, known)
      BY <2>1, <2>2, EarlyCopyStays
    <2> QED BY <1>1, <2>1, <2>3 DEF Row
  <1> HIDE DEF known
  <1>3. /\ class \in Row /\ EarlyCopy(p, class)
        /\ class.ts = r.ts /\ class.key = new.key /\ class.device = r.device
        /\ class.origin = r.origin /\ class.source = r.source
        /\ class.provider = new.provider /\ class.cols = r.cols
    <2> DEFINE stronger == e.provider # "" /\ Rank(e.provider) > Rank(r.provider)
    <2>0. class \in Row /\ class = IF e.provider # "" /\ Rank(e.provider) > Rank(known.provider)
                                   THEN [known EXCEPT !.provider = e.provider] ELSE known
      BY <1>2, ReclassifyGate
    <2>1. class \in Row /\ class = IF stronger THEN [known EXCEPT !.provider = e.provider]
                                   ELSE known
      BY <1>2, <2>0
    <2>2. Gains(known, class)
      <3>1. stronger => Rank(e.provider) > Rank(known.provider)
        BY <1>2
      <3> HIDE DEF stronger
      <3>2. CASE stronger
        <4>1. class.provider = e.provider
          BY <1>2, <2>1, <3>2 DEF Row
        <4>2. class.ts = known.ts /\ class.key = known.key /\ class.device = known.device
                  /\ class.origin = known.origin /\ class.source = known.source
                  /\ class.cols = known.cols
          BY <1>2, <2>1, <3>2 DEF Row
        <4> QED BY <3>1, <3>2, <4>1, <4>2 DEF Gains
      <3>3. CASE ~stronger
        BY <1>2, <2>1, <3>3, GainsOrder
      <3> QED BY <3>2, <3>3
    <2>3. EarlyCopy(p, class)
      BY <1>2, <2>1, <2>2, EarlyCopyStays
    <2>4. new.provider = IF stronger THEN e.provider ELSE r.provider
      BY <1>1
    <2> HIDE DEF stronger
    <2> QED BY <1>2, <2>1, <2>3, <2>4 DEF Row
  <1> HIDE DEF class
  <1>4. /\ owned \in Row /\ EarlyCopy(p, owned)
        /\ owned.ts = r.ts /\ owned.key = new.key /\ owned.device = new.device
        /\ owned.origin = new.origin /\ owned.source = r.source
        /\ owned.provider = new.provider /\ owned.cols = r.cols
    <2>1. owned \in Row /\ owned = IF origin = "self" /\ class.origin = "observed"
                                   THEN [class EXCEPT !.device = e.device, !.origin = "self"]
                                   ELSE class
      BY <1>3, ReattributeGate
    <2>2. Gains(class, owned)
      BY <1>3, <2>1 DEF Gains, Row
    <2>3. EarlyCopy(p, owned)
      BY <1>3, <2>1, <2>2, EarlyCopyStays
    <2> QED BY <1>1, <1>3, <2>1, <2>3, ZenonT(30) DEF Row
  <1> HIDE DEF owned
  <1>5. /\ NumColumns \in SUBSET Columns /\ TextColumns \in SUBSET Columns
        /\ LogColumns \in SUBSET Columns
    BY DEF Columns
  <1>6. /\ nums \in Row /\ EarlyCopy(p, nums)
        /\ nums.ts = r.ts /\ nums.key = new.key /\ nums.device = new.device
        /\ nums.origin = new.origin /\ nums.source = r.source
        /\ nums.provider = new.provider
        /\ \A c \in Columns : nums.cols[c] =
                IF c \in NumColumns /\ r.cols[c] = Empty THEN e.cols[c] ELSE r.cols[c]
    <2>1. nums \in Row /\ nums = Fill(owned, e, NumColumns)
      BY <1>4, <1>5, FillGate
    <2>2. Gains(owned, nums)
      BY <1>4, <2>1, FillColumns DEF Gains
    <2>3. EarlyCopy(p, nums)
      BY <1>4, <2>1, <2>2, EarlyCopyStays
    <2> QED BY <1>4, <2>1, <2>3, FillColumns
  <1> HIDE DEF nums
  <1>7. /\ texts \in Row /\ EarlyCopy(p, texts)
        /\ texts.ts = r.ts /\ texts.key = new.key /\ texts.device = new.device
        /\ texts.origin = new.origin /\ texts.source = r.source
        /\ texts.provider = new.provider
        /\ \A c \in Columns : texts.cols[c] =
                IF c \in NumColumns \cup TextColumns /\ r.cols[c] = Empty
                THEN e.cols[c] ELSE r.cols[c]
    <2>1. texts \in Row /\ texts = Fill(nums, e, TextColumns)
      BY <1>5, <1>6, FillGate
    <2>2. Gains(nums, texts)
      BY <1>6, <2>1, FillColumns DEF Gains
    <2>3. EarlyCopy(p, texts)
      BY <1>6, <2>1, <2>2, EarlyCopyStays
    <2> QED BY <1>6, <2>1, <2>3, FillColumns
  <1> HIDE DEF texts
  <1>8. /\ tool \in Row /\ EarlyCopy(p, tool)
        /\ tool.ts = r.ts /\ tool.key = new.key /\ tool.device = new.device
        /\ tool.origin = new.origin /\ tool.source = new.source
        /\ tool.provider = new.provider /\ tool.cols = texts.cols
    <2>1. tool \in Row /\ tool = IF e.source # "proxy" /\ texts.source = "proxy"
                                 THEN [texts EXCEPT !.source = e.source] ELSE texts
      BY <1>7, PromoteGate
    <2>2. Gains(texts, tool)
      BY <1>7, <2>1 DEF Gains, Row
    <2>3. EarlyCopy(p, tool)
      BY <1>7, <2>1, <2>2, EarlyCopyStays
    <2> QED BY <1>1, <1>7, <2>1, <2>3 DEF Row
  <1> HIDE DEF tool
  <1>9. full \in Row /\ full = IF e.source # "proxy" THEN Fill(tool, e, LogColumns) ELSE tool
    BY <1>5, <1>8, FillGate DEF LogFill
  <1> HIDE DEF full
  <1>10. /\ Fill(tool, e, LogColumns).ts = tool.ts /\ Fill(tool, e, LogColumns).key = tool.key
        /\ Fill(tool, e, LogColumns).device = tool.device
        /\ Fill(tool, e, LogColumns).origin = tool.origin
        /\ Fill(tool, e, LogColumns).source = tool.source
        /\ Fill(tool, e, LogColumns).provider = tool.provider
        /\ \A c \in Columns : Fill(tool, e, LogColumns).cols[c] =
                IF c \in LogColumns /\ tool.cols[c] = Empty THEN e.cols[c] ELSE tool.cols[c]
    BY <1>8, FillColumns
  <1>11. /\ full.ts = new.ts /\ full.key = new.key /\ full.device = new.device
         /\ full.origin = new.origin /\ full.source = new.source
         /\ full.provider = new.provider
    BY <1>1, <1>8, <1>9, <1>10
  <1>12. \A c \in Columns : full.cols[c] = new.cols[c]
    <2> SUFFICES ASSUME NEW c \in Columns PROVE full.cols[c] = new.cols[c]
      OBVIOUS
    <2>1. full.cols[c] = IF e.source # "proxy" /\ c \in LogColumns /\ texts.cols[c] = Empty
                         THEN e.cols[c] ELSE texts.cols[c]
      BY <1>8, <1>9, <1>10
    <2> QED BY <1>1, <1>7, <2>1 DEF Filled
  <1>13. full = new
    BY <1>1, <1>9, <1>11, <1>12, RowsEqual
  <1> QED BY <1>13 DEF Merge, known, class, owned, nums, texts, tool, full, new

-----------------------------------------------------------------------------
(* One event of a batch.                                                   *)

Table == [Ids -> Row \cup {Absent}]
Acc == [table : Table, inserted : Nat, mutated : BOOLEAN]

\* The order of copies: i is the later one.
After(i, w) == TS[i] > TS[w] \/ (TS[i] = TS[w] /\ i > w)

(***************************************************************************)
(* A table after the ids in O were reported: a key has one owner, which is *)
(* the earliest reported copy; rows of O carry their key; and rows without *)
(* one are never lost.                                                     *)
(***************************************************************************)
TableOK(t, O) ==
    /\ t \in Table
    /\ \A id \in Ids : t[id] # Absent => t[id].key \in {NoKey, Key[id]}
    /\ \A i, j \in Ids :
        t[i] # Absent /\ t[j] # Absent /\ t[i].key = t[j].key /\ t[i].key # NoKey => i = j
    /\ \A id \in Ids : t[id] # Absent /\ t[id].key # NoKey => id \in O
    /\ \A id \in O :
        /\ Key[id] = NoKey => t[id] # Absent
        /\ t[id] # Absent => t[id].key = Key[id]
        /\ Key[id] # NoKey => \E w \in Ids : /\ t[w] # Absent /\ t[w].key = Key[id]
                                             /\ w = id \/ After(id, w)

\* What the batch knows of an event's row: that it was not there, or an early
\* copy of it; it may have been dropped since, for an earlier generation.
PriorOK(p, t, e, O) ==
    \/ p = Absent
    \/ /\ p \in Row /\ p.key \in {NoKey, Key[e.id]}
       /\ IF t[e.id] = Absent THEN e.id \in O ELSE Gains(p, t[e.id])

Rivals(t, e) == Owners(t, e) \ {e.id}

\* What an event does to the table, without gates and in one expression.
NewRow(t, e, origin) ==
    IF t[e.id] = Absent THEN RowOf(e, origin) ELSE Merged(t[e.id], e, origin)

Stepped(acc, e, origin) ==
    LET t == acc.table
    IN  IF \E w \in Rivals(t, e) : After(e.id, w)
        THEN [table |-> [t EXCEPT ![e.id] = Absent], inserted |-> acc.inserted,
              mutated |-> acc.mutated \/ t[e.id] # Absent]
        ELSE [table |-> [id \in Ids |-> IF id = e.id THEN NewRow(t, e, origin)
                                        ELSE IF id \in Rivals(t, e) THEN Absent ELSE t[id]],
              inserted |-> acc.inserted + (IF t[e.id] = Absent THEN 1 ELSE 0),
              mutated |-> acc.mutated \/ Rivals(t, e) # {} \/ NewRow(t, e, origin) # t[e.id]]

\* A report is its three parts.
LEMMA AccIsRecord ==
    ASSUME NEW acc \in Acc
    PROVE  /\ acc = [table |-> acc.table, inserted |-> acc.inserted, mutated |-> acc.mutated]
           /\ acc.table \in Table /\ acc.inserted \in Nat /\ acc.mutated \in BOOLEAN
  BY DEF Acc

\* A dropped row, and nothing else, is gone.
LEMMA DropIs ==
    ASSUME NEW acc \in Acc, NEW id \in Ids
    PROVE  /\ Drop(acc, id) = [table |-> [acc.table EXCEPT ![id] = Absent],
                               inserted |-> acc.inserted,
                               mutated |-> acc.mutated \/ acc.table[id] # Absent]
           /\ Drop(acc, id) \in Acc
           /\ Drop(acc, id).table[id] = Absent
           /\ \A i \in Ids : i # id => Drop(acc, id).table[i] = acc.table[i]
  <1>1. Drop(acc, id) = [table |-> [acc.table EXCEPT ![id] = Absent],
                         inserted |-> acc.inserted,
                         mutated |-> acc.mutated \/ acc.table[id] # Absent]
    BY DEF Drop
  <1>2. [acc.table EXCEPT ![id] = Absent] \in Table
    BY DEF Acc, Table
  <1>3. /\ [acc.table EXCEPT ![id] = Absent][id] = Absent
        /\ \A i \in Ids : i # id => [acc.table EXCEPT ![id] = Absent][i] = acc.table[i]
    BY DEF Acc, Table
  <1>4. (acc.mutated \/ acc.table[id] # Absent) \in BOOLEAN
    OBVIOUS
  <1>5. Drop(acc, id) \in Acc
    BY <1>1, <1>2, <1>4 DEF Acc
  <1> QED BY <1>1, <1>3, <1>5

\* The copies are totally ordered.
LEMMA AfterOrder ==
    /\ \A i, w \in Ids : i # w => After(i, w) \/ After(w, i)
    /\ \A i, w \in Ids : ~(After(i, w) /\ After(w, i))
    /\ \A i, w, v \in Ids : After(i, w) /\ After(w, v) => After(i, v)
  <1>1. \A i \in Ids : i \in Int /\ TS[i] \in Int
    BY EventStoreConstants
  <1> QED BY <1>1 DEF After

\* At most one row rivals an event's, and none if the event's row has the key.
LEMMA OneRival ==
    ASSUME NEW t, NEW O, TableOK(t, O), NEW e \in Observation
    PROVE  /\ Rivals(t, e) \subseteq Ids
           /\ \A w \in Rivals(t, e) : /\ w # e.id /\ t[w] # Absent /\ t[w].key = Key[e.id]
                                      /\ Key[e.id] # NoKey /\ w \in O
           /\ \A v, w \in Rivals(t, e) : v = w
           /\ t[e.id] # Absent /\ t[e.id].key = Key[e.id] => Rivals(t, e) = {}
           /\ t[e.id] = Absent => Owners(t, e) = Rivals(t, e)
  <1>1. e.id \in Ids
    BY DEF Observation
  <1>2. \A w \in Rivals(t, e) : /\ w \in Ids /\ w # e.id /\ t[w] # Absent
                                /\ t[w].key = Key[e.id] /\ Key[e.id] # NoKey
    BY DEF Rivals, Owners, Present
  <1> QED BY <1>1, <1>2 DEF TableOK, Rivals, Owners, Present

\* An observation of a row that is there.
LEMMA UpdateIs ==
    ASSUME NEW acc \in Acc, NEW e \in Observation, NEW origin \in Origins, NEW p,
           acc.table[e.id] # Absent, EarlyCopy(p, acc.table[e.id])
    PROVE  Update(acc, e, p, origin) =
             [table |-> [acc.table EXCEPT ![e.id] = Merged(acc.table[e.id], e, origin)],
              inserted |-> acc.inserted,
              mutated |-> acc.mutated \/ Merged(acc.table[e.id], e, origin) # acc.table[e.id]]
  <1>1. acc.table[e.id] \in Row
    BY DEF Acc, Table, Observation
  <1>2. Merge(acc.table[e.id], e, p, origin) = Merged(acc.table[e.id], e, origin)
    BY <1>1, GatesSkipNothing
  <1> QED BY <1>2 DEF Update

\* Every event of a batch does what Stepped says, gated or not.
LEMMA ApplyIsStepped ==
    ASSUME NEW acc \in Acc, NEW O \in SUBSET Ids, TableOK(acc.table, O),
           NEW e \in Observation, NEW origin \in Origins,
           NEW p, PriorOK(p, acc.table, e, O)
    PROVE  ApplyEvent(acc, e, p, origin) = Stepped(acc, e, origin)
  <1> DEFINE t == acc.table
             rivals == Rivals(t, e)
             self == p # Absent /\ Key[e.id] # NoKey /\ p.key = Key[e.id]
             owners == IF self THEN {} ELSE rivals
             owner == CHOOSE id \in owners : TRUE
             freed == Drop(acc, owner)
  <1>1. p \in Row => p # Absent
    BY RowIsPresent
  <1>2. e.id \in Ids /\ t \in Table /\ DOMAIN t = Ids
    BY DEF Observation, Acc, Table
  <1>3. ApplyEvent(acc, e, p, origin) =
            IF p = Absent /\ Insertable(t, e) THEN Insert(acc, e, origin)
            ELSE IF owners = {} THEN Update(acc, e, p, origin)
            ELSE IF Later(e, owner) THEN Drop(acc, e.id)
            ELSE IF Insertable(freed.table, e) THEN Insert(freed, e, origin)
            ELSE Update(freed, e, p, origin)
    BY DEF ApplyEvent, Rivals
  <1>4. /\ rivals \subseteq Ids
        /\ \A w \in rivals : /\ w # e.id /\ t[w] # Absent /\ t[w].key = Key[e.id]
                             /\ Key[e.id] # NoKey /\ w \in O
        /\ \A v, w \in rivals : v = w
        /\ t[e.id] # Absent /\ t[e.id].key = Key[e.id] => rivals = {}
        /\ t[e.id] = Absent => Owners(t, e) = rivals
    BY OneRival
  <1>5. \A w \in Ids : Later(e, w) <=> After(e.id, w)
    BY DEF Later, After
  <1>6. Insertable(t, e) <=> t[e.id] = Absent /\ rivals = {}
    BY <1>4 DEF Insertable
  <1>7. Stepped(acc, e, origin) =
            IF \E w \in rivals : After(e.id, w)
            THEN [table |-> [t EXCEPT ![e.id] = Absent], inserted |-> acc.inserted,
                  mutated |-> acc.mutated \/ t[e.id] # Absent]
            ELSE [table |-> [id \in Ids |-> IF id = e.id THEN NewRow(t, e, origin)
                                            ELSE IF id \in rivals THEN Absent ELSE t[id]],
                  inserted |-> acc.inserted + (IF t[e.id] = Absent THEN 1 ELSE 0),
                  mutated |-> acc.mutated \/ rivals # {} \/ NewRow(t, e, origin) # t[e.id]]
    BY DEF Stepped
  <1>8. Drop(acc, e.id) = [table |-> [t EXCEPT ![e.id] = Absent], inserted |-> acc.inserted,
                           mutated |-> acc.mutated \/ t[e.id] # Absent]
    BY <1>2, DropIs
  <1>9. CASE p # Absent /\ t[e.id] = Absent
    \* dropped earlier in the batch: its generation has an earlier owner
    <2>1. e.id \in O
      BY <1>9 DEF PriorOK
    <2>2. \E w \in rivals : After(e.id, w)
      <3>1. Key[e.id] # NoKey
        BY <1>9, <2>1 DEF TableOK
      <3>2. PICK w \in Ids : t[w] # Absent /\ t[w].key = Key[e.id] /\ (w = e.id \/ After(e.id, w))
        BY <2>1, <3>1 DEF TableOK
      <3>3. w # e.id /\ w \in Owners(t, e)
        BY <1>9, <3>1, <3>2 DEF Owners, Present
      <3> QED BY <1>4, <1>9, <3>2, <3>3
    <2>3. Drop(acc, e.id) = acc
      <3>1. [t EXCEPT ![e.id] = Absent] = t
        BY <1>2, <1>9 DEF Table
      <3>2. (acc.mutated \/ t[e.id] # Absent) = acc.mutated
        BY <1>9, AccIsRecord
      <3> QED BY <1>8, <3>1, <3>2, AccIsRecord
    <2>4. CASE self
      BY <1>3, <1>7, <1>8, <1>9, <2>2, <2>3, <2>4 DEF Update
    <2>5. CASE ~self
      <3>1. owners = rivals /\ owners # {} /\ owner \in rivals
        BY <2>2, <2>5
      <3>2. After(e.id, owner)
        BY <1>4, <2>2, <3>1
      <3> HIDE DEF owner, owners, self, freed, rivals
      <3>3. ApplyEvent(acc, e, p, origin) = Drop(acc, e.id)
        BY <1>3, <1>4, <1>5, <1>9, <3>1, <3>2
      <3> QED BY <1>7, <1>8, <2>2, <3>3
    <2> QED BY <2>4, <2>5
  \* the two tables of the branches below, by their rows
  <1>10. ASSUME NEW w \in rivals
         PROVE  LET f == Drop(acc, w)
                IN  /\ f \in Acc /\ f.table[e.id] = t[e.id]
                    /\ f.inserted = acc.inserted /\ f.mutated = TRUE
                    /\ Owners(f.table, e) \subseteq {e.id}
                    /\ \A row : [f.table EXCEPT ![e.id] = row] =
                         [id \in Ids |-> IF id = e.id THEN row
                                        ELSE IF id \in rivals THEN Absent ELSE t[id]]
    <2> DEFINE f == Drop(acc, w)
    <2>1. w \in Ids /\ w # e.id /\ t[w] # Absent /\ rivals = {w}
      BY <1>4, <1>10
    <2>2. /\ f = [table |-> [t EXCEPT ![w] = Absent], inserted |-> acc.inserted,
                  mutated |-> acc.mutated \/ t[w] # Absent]
          /\ f \in Acc /\ f.table[w] = Absent
          /\ \A i \in Ids : i # w => f.table[i] = t[i]
      BY <2>1, DropIs
    <2>3. f.inserted = acc.inserted /\ f.mutated = TRUE
      <3> DEFINE told == acc.mutated \/ t[w] # Absent
      <3>1. told = TRUE
        BY <2>1
      <3> HIDE DEF told
      <3>2. f = [table |-> [t EXCEPT ![w] = Absent], inserted |-> acc.inserted,
                 mutated |-> told]
        BY <2>2 DEF told
      <3> QED BY <3>1, <3>2
    <2> HIDE DEF f
    <2>4. Owners(f.table, e) \subseteq {e.id}
      <3> SUFFICES ASSUME NEW i \in Owners(f.table, e), i # e.id PROVE FALSE
        OBVIOUS
      <3>1. i \in Ids /\ f.table[i] # Absent /\ Key[e.id] # NoKey /\ f.table[i].key = Key[e.id]
        BY DEF Owners, Present
      <3>2. i # w /\ f.table[i] = t[i]
        BY <2>2, <3>1
      <3>3. i \in rivals
        BY <3>1, <3>2 DEF Rivals, Owners, Present
      <3> QED BY <2>1, <3>2, <3>3
    <2>5. f.table \in Table /\ DOMAIN f.table = Ids
      BY <2>2 DEF Acc, Table
    <2>6. ASSUME NEW row
          PROVE  [f.table EXCEPT ![e.id] = row] =
                   [id \in Ids |-> IF id = e.id THEN row
                                  ELSE IF id \in rivals THEN Absent ELSE t[id]]
      BY <1>2, <2>1, <2>2, <2>5 DEF Table
    <2> QED BY <1>2, <2>1, <2>2, <2>3, <2>4, <2>6 DEF f
  <1>11. CASE p = Absent /\ t[e.id] = Absent
    <2>1. ~self /\ owners = rivals /\ NewRow(t, e, origin) = RowOf(e, origin)
      BY <1>11 DEF NewRow
    <2>2. RowOf(e, origin) # Absent
      BY RowOfIsRow, RowIsPresent
    <2>3. CASE rivals = {}
      <3>1. ApplyEvent(acc, e, p, origin) = Insert(acc, e, origin)
        BY <1>3, <1>6, <1>11, <2>3
      <3>2. [t EXCEPT ![e.id] = RowOf(e, origin)] =
                [id \in Ids |-> IF id = e.id THEN RowOf(e, origin)
                               ELSE IF id \in rivals THEN Absent ELSE t[id]]
        BY <1>2, <2>3 DEF Table
      <3>3. (acc.mutated \/ rivals # {} \/ RowOf(e, origin) # t[e.id]) = TRUE
        BY <1>11, <2>2
      <3> HIDE DEF rivals
      <3> QED BY <1>7, <1>11, <2>1, <2>3, <3>1, <3>2, <3>3 DEF Insert
    <2>4. CASE rivals # {}
      <3>1. owners # {} /\ owner \in rivals /\ owner \in Ids
        BY <1>4, <2>1, <2>4
      <3>2. (\E w \in rivals : After(e.id, w)) <=> Later(e, owner)
        BY <1>4, <1>5, <3>1
      <3>3. ~Insertable(t, e)
        BY <1>6, <2>4
      <3>4. CASE Later(e, owner)
        BY <1>3, <1>7, <1>8, <3>1, <3>2, <3>3, <3>4
      <3>5. CASE ~Later(e, owner)
        <4>1. /\ freed.table[e.id] = t[e.id] /\ freed.inserted = acc.inserted
              /\ Owners(freed.table, e) \subseteq {e.id}
              /\ [freed.table EXCEPT ![e.id] = RowOf(e, origin)] =
                     [id \in Ids |-> IF id = e.id THEN RowOf(e, origin)
                                    ELSE IF id \in rivals THEN Absent ELSE t[id]]
          BY <1>10, <3>1
        <4>2. Insertable(freed.table, e)
          BY <1>11, <4>1 DEF Insertable, Owners, Present
        <4>3. ApplyEvent(acc, e, p, origin) = Insert(freed, e, origin)
          BY <1>3, <3>1, <3>3, <3>5, <4>2
        <4>4. (acc.mutated \/ rivals # {} \/ RowOf(e, origin) # t[e.id]) = TRUE
          BY <2>4
        <4> HIDE DEF freed, rivals, owner, owners
        <4> QED BY <1>7, <1>11, <2>1, <3>2, <3>5, <4>1, <4>3, <4>4 DEF Insert
      <3> QED BY <3>4, <3>5
    <2> QED BY <2>3, <2>4
  <1>12. CASE t[e.id] # Absent
    <2>1. EarlyCopy(p, t[e.id]) /\ ~Insertable(t, e)
      BY <1>6, <1>12 DEF PriorOK, EarlyCopy
    <2>2. owners = rivals /\ NewRow(t, e, origin) = Merged(t[e.id], e, origin)
      <3>1. ASSUME self PROVE rivals = {}
        <4>1. p \in Row /\ p.key = Key[e.id] /\ Key[e.id] # NoKey /\ Gains(p, t[e.id])
          BY <1>12, <3>1 DEF PriorOK
        <4>2. t[e.id].key = Key[e.id]
          BY <4>1 DEF Gains
        <4> QED BY <1>4, <1>12, <4>2
      <3> QED BY <1>12, <3>1 DEF NewRow
    <2> DEFINE row == Merged(t[e.id], e, origin)
    <2>3. CASE rivals = {}
      <3>1. ApplyEvent(acc, e, p, origin) = Update(acc, e, p, origin)
        BY <1>3, <2>1, <2>2, <2>3
      <3>2. [t EXCEPT ![e.id] = row] =
                [id \in Ids |-> IF id = e.id THEN row
                               ELSE IF id \in rivals THEN Absent ELSE t[id]]
        <4> HIDE DEF row
        <4> QED BY <1>2, <2>3 DEF Table
      <3>3. Update(acc, e, p, origin) = [table |-> [t EXCEPT ![e.id] = row],
                inserted |-> acc.inserted, mutated |-> acc.mutated \/ row # t[e.id]]
        BY <1>12, <2>1, UpdateIs
      <3>4. acc.inserted + 0 = acc.inserted
        BY AccIsRecord
      <3> HIDE DEF rivals, row
      <3> QED BY <1>7, <1>12, <2>2, <2>3, <3>1, <3>2, <3>3, <3>4 DEF row
    <2>4. CASE rivals # {}
      <3>1. owners # {} /\ owner \in rivals /\ owner \in Ids
        BY <1>4, <2>2, <2>4
      <3>2. (\E w \in rivals : After(e.id, w)) <=> Later(e, owner)
        BY <1>4, <1>5, <3>1
      <3>3. CASE Later(e, owner)
        BY <1>3, <1>7, <1>8, <2>1, <3>1, <3>2, <3>3
      <3>4. CASE ~Later(e, owner)
        <4>1. /\ freed \in Acc /\ freed.table[e.id] = t[e.id]
              /\ freed.inserted = acc.inserted /\ freed.mutated = TRUE
              /\ [freed.table EXCEPT ![e.id] = row] =
                     [id \in Ids |-> IF id = e.id THEN row
                                    ELSE IF id \in rivals THEN Absent ELSE t[id]]
          BY <1>10, <3>1
        <4>2. ~Insertable(freed.table, e)
          BY <1>12, <4>1 DEF Insertable
        <4>3. ApplyEvent(acc, e, p, origin) = Update(freed, e, p, origin)
          BY <1>3, <2>1, <3>1, <3>4, <4>2
        <4> HIDE DEF freed, rivals, owner, owners
        <4>4. Update(freed, e, p, origin) = [table |-> [freed.table EXCEPT ![e.id] = row],
                inserted |-> freed.inserted, mutated |-> freed.mutated \/ row # t[e.id]]
          BY <1>12, <2>1, <4>1, UpdateIs
        <4>5. (acc.mutated \/ rivals # {} \/ row # t[e.id]) = TRUE
                  /\ (freed.mutated \/ row # t[e.id]) = TRUE
          BY <2>4, <4>1
        <4>6. acc.inserted + 0 = acc.inserted
          BY AccIsRecord
        <4> HIDE DEF row
        <4> QED BY <1>7, <1>12, <2>2, <3>2, <3>4, <4>1, <4>3, <4>4, <4>5, <4>6 DEF row
      <3> QED BY <3>3, <3>4
    <2> QED BY <2>3, <2>4
  <1> QED BY <1>9, <1>11, <1>12

-----------------------------------------------------------------------------
(* What the table keeps, over one event and over many.                     *)

(***************************************************************************)
(* The table went from s, where O had been reported, to t, where Q has: a  *)
(* row is lost only by being reported, comes only as the first report of   *)
(* its id, and otherwise gains.                                            *)
(***************************************************************************)
Progress(s, O, t, Q) ==
    \A id \in Ids :
        /\ s[id] # Absent /\ t[id] = Absent => id \in Q
        /\ s[id] = Absent /\ t[id] # Absent => id \in Q \ O
        /\ s[id] # Absent /\ t[id] # Absent => Gains(s[id], t[id])

\* An earlier copy than the event has its key.
Late(t, e) == \E w \in Rivals(t, e) : After(e.id, w)

\* The rows after one event.
LEMMA SteppedRows ==
    ASSUME NEW acc \in Acc, NEW O \in SUBSET Ids, TableOK(acc.table, O),
           NEW e \in Observation, NEW origin \in Origins
    PROVE  LET t == acc.table
               n == Stepped(acc, e, origin)
               late == Late(t, e)
           IN  /\ n \in Acc
               /\ late => /\ n.table[e.id] = Absent
                          /\ \A id \in Ids : id # e.id => n.table[id] = t[id]
               /\ ~late => /\ n.table[e.id] = NewRow(t, e, origin)
                           /\ \A id \in Rivals(t, e) : n.table[id] = Absent
                           /\ \A id \in Ids : id # e.id /\ id \notin Rivals(t, e)
                                                => n.table[id] = t[id]
               /\ NewRow(t, e, origin) \in Row
               /\ n.mutated <=> acc.mutated \/ n.table # t
  <1> DEFINE t == acc.table
             n == Stepped(acc, e, origin)
             late == Late(t, e)
             new == NewRow(t, e, origin)
             lost == [t EXCEPT ![e.id] = Absent]
             kept == [id \in Ids |-> IF id = e.id THEN new
                                     ELSE IF id \in Rivals(t, e) THEN Absent ELSE t[id]]
             count == acc.inserted + (IF t[e.id] = Absent THEN 1 ELSE 0)
             toldLost == acc.mutated \/ t[e.id] # Absent
             toldKept == acc.mutated \/ Rivals(t, e) # {} \/ new # t[e.id]
  <1>1. e.id \in Ids /\ t \in Table /\ acc.inserted \in Nat /\ acc.mutated \in BOOLEAN
    BY DEF Observation, Acc
  <1>2. n = IF late THEN [table |-> lost, inserted |-> acc.inserted, mutated |-> toldLost]
            ELSE [table |-> kept, inserted |-> count, mutated |-> toldKept]
    BY DEF Stepped, Late
  <1>3. new \in Row
    BY <1>1, RowOfIsRow, MergedIsRow DEF NewRow, Table
  <1>4. lost \in Table /\ count \in Nat /\ toldLost \in BOOLEAN /\ toldKept \in BOOLEAN
    BY <1>1 DEF Table
  <1>5. kept \in Table
    <2> HIDE DEF new
    <2> QED BY <1>1, <1>3 DEF Table
  <1>6. /\ lost[e.id] = Absent /\ \A id \in Ids : id # e.id => lost[id] = t[id]
    BY <1>1 DEF Table
  <1>7. \A w \in Rivals(t, e) : w \in Ids /\ w # e.id /\ t[w] # Absent
    BY OneRival
  <1>8. /\ kept[e.id] = new
        /\ \A id \in Rivals(t, e) : kept[id] = Absent
        /\ \A id \in Ids : id # e.id /\ id \notin Rivals(t, e) => kept[id] = t[id]
    <2> HIDE DEF new
    <2> QED BY <1>1, <1>7
  <1>9. toldLost <=> acc.mutated \/ lost # t
    <2>1. t[e.id] # Absent <=> lost # t
      <3> HIDE DEF lost
      <3> QED BY <1>1, <1>4, <1>6 DEF Table
    <2> HIDE DEF lost
    <2> QED BY <2>1
  <1>10. toldKept <=> acc.mutated \/ kept # t
    <2>1. Rivals(t, e) # {} \/ new # t[e.id] <=> kept # t
      <3> HIDE DEF kept, new
      <3> QED BY <1>1, <1>5, <1>7, <1>8 DEF Table
    <2> HIDE DEF kept, new
    <2> QED BY <2>1
  <1> HIDE DEF new, lost, kept, count, toldLost, toldKept
  <1>11. CASE late
    <2>1. n = [table |-> lost, inserted |-> acc.inserted, mutated |-> toldLost]
      BY <1>2, <1>11
    <2>2. n \in Acc /\ n.table = lost /\ n.mutated = toldLost
      BY <1>1, <1>4, <2>1 DEF Acc
    <2> HIDE DEF n
    <2> QED BY <1>3, <1>6, <1>9, <1>11, <2>2 DEF n, new
  <1>12. CASE ~late
    <2>1. n = [table |-> kept, inserted |-> count, mutated |-> toldKept]
      BY <1>2, <1>12
    <2>2. n \in Acc /\ n.table = kept /\ n.mutated = toldKept
      BY <1>4, <1>5, <2>1 DEF Acc
    <2> HIDE DEF n
    <2> QED BY <1>3, <1>8, <1>10, <1>12, <2>2 DEF n, new
  <1> QED BY <1>11, <1>12

\* One event loses, brings and changes rows as Progress allows.
LEMMA SteppedProgress ==
    ASSUME NEW acc \in Acc, NEW O \in SUBSET Ids, TableOK(acc.table, O),
           NEW e \in Observation, NEW origin \in Origins
    PROVE  LET t == acc.table
               u == Stepped(acc, e, origin).table
           IN  /\ Progress(t, O, u, O \cup {e.id})
               /\ \A id \in Ids : id # e.id /\ u[id] # Absent => t[id] # Absent /\ u[id] = t[id]
               /\ u[e.id] # Absent =>
                    /\ Absorbed(u[e.id], e, origin) /\ u[e.id].key = Key[e.id]
                    /\ \/ t[e.id] # Absent /\ u[e.id].provider = t[e.id].provider
                       \/ u[e.id].provider = e.provider
  <1> DEFINE t == acc.table
             u == Stepped(acc, e, origin).table
             new == NewRow(t, e, origin)
             late == Late(t, e)
  <1>1. e.id \in Ids /\ t \in Table /\ u \in Table
    BY SteppedRows DEF Observation, Acc
  <1>2. /\ late => u[e.id] = Absent
        /\ late => \A id \in Ids : id # e.id => u[id] = t[id]
        /\ ~late => u[e.id] = new
        /\ ~late => \A id \in Rivals(t, e) : u[id] = Absent
        /\ ~late => \A id \in Ids : id # e.id /\ id \notin Rivals(t, e) => u[id] = t[id]
        /\ new \in Row
    <2>1. new \in Row
      BY SteppedRows
    <2>2. ~late => u[e.id] = new
      BY SteppedRows
    <2> HIDE DEF new
    <2> QED BY <2>1, <2>2, SteppedRows
  <1>3. /\ \A w \in Rivals(t, e) : w \in Ids /\ w # e.id /\ t[w] # Absent /\ w \in O
        /\ Rivals(t, e) # {} => Key[e.id] # NoKey
    BY OneRival
  <1>4. \A id \in Ids : t[id] # Absent => t[id] \in Row
    BY <1>1 DEF Table
  <1>5. t[e.id] # Absent => /\ Gains(t[e.id], new) /\ Absorbed(new, e, origin)
                            /\ new.key = Key[e.id]
                            /\ new.provider = t[e.id].provider \/ new.provider = e.provider
    <2> SUFFICES ASSUME t[e.id] # Absent
                 PROVE  /\ Gains(t[e.id], new) /\ Absorbed(new, e, origin)
                        /\ new.key = Key[e.id]
                        /\ new.provider = t[e.id].provider \/ new.provider = e.provider
      OBVIOUS
    <2>1. new = Merged(t[e.id], e, origin) /\ t[e.id] \in Row
      BY <1>1, <1>4 DEF NewRow
    <2>2. Gains(t[e.id], new) /\ Absorbed(new, e, origin)
      BY <2>1, MergedGains
    <2>3. t[e.id].key \in {NoKey, Key[e.id]}
      BY <1>1 DEF TableOK
    <2> HIDE DEF new
    <2> QED BY <2>1, <2>2, <2>3 DEF Merged
  <1>6. t[e.id] = Absent => /\ Absorbed(new, e, origin) /\ new.key = Key[e.id]
                            /\ new.provider = e.provider
    BY RowOfIsRow DEF NewRow
  <1>7. t[e.id] = Absent /\ ~late => e.id \notin O
    <2> SUFFICES ASSUME t[e.id] = Absent, e.id \in O PROVE late
      OBVIOUS
    <2>1. PICK w \in Ids : /\ t[w] # Absent /\ t[w].key = Key[e.id]
                           /\ Key[e.id] # NoKey /\ (w = e.id \/ After(e.id, w))
      BY DEF TableOK
    <2>2. w \in Rivals(t, e)
      BY <2>1 DEF Rivals, Owners, Present
    <2> QED BY <2>1, <2>2 DEF Late
  <1> HIDE DEF u, new, t, late
  <1>8. ASSUME NEW id \in Ids
        PROVE  /\ t[id] # Absent /\ u[id] = Absent => id \in O \cup {e.id}
               /\ t[id] = Absent /\ u[id] # Absent => id \in (O \cup {e.id}) \ O
               /\ t[id] # Absent /\ u[id] # Absent => Gains(t[id], u[id])
    <2>1. CASE id = e.id
      BY <1>2, <1>5, <1>7, <2>1
    <2>2. CASE id # e.id
      <3>1. u[id] = t[id] \/ (id \in O /\ t[id] # Absent /\ u[id] = Absent)
        BY <1>2, <1>3, <2>2
      <3>2. t[id] # Absent => Gains(t[id], t[id])
        BY <1>4, GainsOrder
      <3> QED BY <2>2, <3>1, <3>2
    <2> QED BY <2>1, <2>2
  <1>9. Progress(t, O, u, O \cup {e.id})
    BY <1>8 DEF Progress
  <1>10. \A id \in Ids : id # e.id /\ u[id] # Absent => t[id] # Absent /\ u[id] = t[id]
    BY <1>2
  <1>11. u[e.id] # Absent => u[e.id] = new
    BY <1>2
  <1> QED BY <1>5, <1>6, <1>9, <1>10, <1>11 DEF t, u

\* One event keeps the table as it must be.
LEMMA SteppedKeeps ==
    ASSUME NEW acc \in Acc, NEW O \in SUBSET Ids, TableOK(acc.table, O),
           NEW e \in Observation, NEW origin \in Origins
    PROVE  TableOK(Stepped(acc, e, origin).table, O \cup {e.id})
  <1> DEFINE t == acc.table
             u == Stepped(acc, e, origin).table
             Q == O \cup {e.id}
             late == Late(t, e)
  <1>1. e.id \in Ids /\ t \in Table /\ u \in Table
    BY SteppedRows DEF Observation, Acc
  <1>2. /\ late => u[e.id] = Absent
        /\ late => \A id \in Ids : id # e.id => u[id] = t[id]
        /\ ~late => u[e.id] # Absent
        /\ ~late => \A id \in Rivals(t, e) : u[id] = Absent
        /\ ~late => \A id \in Ids : id # e.id /\ id \notin Rivals(t, e) => u[id] = t[id]
    BY SteppedRows, RowIsPresent
  <1>3. /\ \A w \in Rivals(t, e) : w \in Ids /\ w # e.id /\ t[w] # Absent /\ w \in O
                                    /\ t[w].key = Key[e.id] /\ Key[e.id] # NoKey
        /\ \A w, v \in Rivals(t, e) : w = v
    BY OneRival
  <1>4. /\ \A id \in Ids : id # e.id /\ u[id] # Absent => t[id] # Absent /\ u[id] = t[id]
        /\ u[e.id] # Absent => u[e.id].key = Key[e.id]
    BY SteppedProgress
  <1>5. /\ \A id \in Ids : t[id] # Absent => t[id].key \in {NoKey, Key[id]}
        /\ \A i, j \in Ids :
            t[i] # Absent /\ t[j] # Absent /\ t[i].key = t[j].key /\ t[i].key # NoKey => i = j
        /\ \A id \in Ids : t[id] # Absent /\ t[id].key # NoKey => id \in O
        /\ \A id \in O :
            /\ Key[id] = NoKey => t[id] # Absent
            /\ t[id] # Absent => t[id].key = Key[id]
            /\ Key[id] # NoKey => \E w \in Ids : /\ t[w] # Absent /\ t[w].key = Key[id]
                                                 /\ w = id \/ After(id, w)
    BY DEF TableOK
  <1>6. \A w \in Ids : w # e.id /\ t[w] # Absent /\ t[w].key = Key[e.id] /\ Key[e.id] # NoKey
                        => w \in Rivals(t, e)
    BY DEF Rivals, Owners, Present
  <1> HIDE DEF u, t
  <1>7. \A id \in Ids : u[id] # Absent => u[id].key \in {NoKey, Key[id]}
    BY <1>4, <1>5
  <1>8. ASSUME NEW i \in Ids, NEW j \in Ids,
               u[i] # Absent, u[j] # Absent, u[i].key = u[j].key, u[i].key # NoKey
        PROVE  i = j
    <2>1. CASE i # e.id /\ j # e.id
      BY <1>4, <1>5, <1>8, <2>1
    <2>2. ASSUME NEW k \in Ids, k # e.id, u[k] # Absent, u[e.id] # Absent,
                 u[k].key = u[e.id].key, u[e.id].key # NoKey
          PROVE  FALSE
      <3>1. t[k] # Absent /\ t[k].key = Key[e.id] /\ Key[e.id] # NoKey
        BY <1>4, <2>2
      <3>2. k \in Rivals(t, e)
        BY <1>6, <2>2, <3>1
      <3> QED BY <1>2, <2>2, <3>2
    <2> QED BY <1>8, <2>1, <2>2
  <1>9. \A id \in Ids : u[id] # Absent /\ u[id].key # NoKey => id \in Q
    BY <1>4, <1>5
  <1>10. ASSUME NEW id \in Q
         PROVE  /\ Key[id] = NoKey => u[id] # Absent
                /\ u[id] # Absent => u[id].key = Key[id]
                /\ Key[id] # NoKey => \E w \in Ids : /\ u[w] # Absent /\ u[w].key = Key[id]
                                                     /\ w = id \/ After(id, w)
    <2>1. id \in Ids /\ (id # e.id => id \in O)
      BY <1>1
    <2>2. ASSUME Key[id] = NoKey PROVE u[id] # Absent
      <3>1. CASE id = e.id
        <4>1. ~late
          BY <1>3, <2>2, <3>1 DEF Late
        <4> QED BY <1>2, <3>1, <4>1
      <3>2. CASE id # e.id
        <4>1. t[id] # Absent /\ t[id].key = NoKey
          BY <1>5, <2>1, <2>2, <3>2
        <4>2. id \notin Rivals(t, e)
          BY <1>3, <4>1
        <4> QED BY <1>2, <2>1, <3>2, <4>1, <4>2
      <3> QED BY <3>1, <3>2
    <2>3. u[id] # Absent => u[id].key = Key[id]
      BY <1>4, <1>5, <2>1
    <2>4. ASSUME Key[id] # NoKey
          PROVE  \E w \in Ids : u[w] # Absent /\ u[w].key = Key[id] /\ (w = id \/ After(id, w))
      <3>1. CASE id = e.id
        <4>1. CASE late
          <5>1. PICK w \in Rivals(t, e) : After(e.id, w)
            BY <4>1 DEF Late
          <5> QED BY <1>2, <1>3, <3>1, <4>1, <5>1
        <4>2. CASE ~late
          BY <1>2, <1>4, <2>1, <3>1, <4>2
        <4> QED BY <4>1, <4>2
      <3>2. CASE id # e.id
        <4>1. PICK w \in Ids : t[w] # Absent /\ t[w].key = Key[id] /\ (w = id \/ After(id, w))
          BY <1>5, <2>1, <2>4, <3>2
        <4>2. CASE u[w] # Absent
          <5>1. u[w].key = Key[id]
            <6>1. CASE w = e.id
              BY <1>4, <1>5, <2>4, <4>1, <4>2, <6>1
            <6> QED BY <1>4, <4>1, <4>2, <6>1
          <5> QED BY <4>1, <4>2, <5>1
        <4>3. CASE u[w] = Absent
          \* the owner gave way to the event's row, or is the event's row
          <5>1. CASE w = e.id
            <6>1. late /\ t[e.id] # Absent /\ t[e.id].key = Key[id]
              BY <1>2, <4>1, <4>3, <5>1
            <6>2. Key[e.id] = Key[id]
              BY <1>1, <1>5, <2>4, <6>1
            <6>3. Rivals(t, e) = {}
              BY <1>1, <1>3, <1>5, <6>1, <6>2
            <6> QED BY <6>1, <6>3 DEF Late
          <5>2. CASE w # e.id
            <6>1. w \in Rivals(t, e) /\ ~late
              BY <1>2, <4>1, <4>3, <5>2
            <6>2. Key[id] = Key[e.id] /\ ~After(e.id, w) /\ u[e.id] # Absent
              BY <1>2, <1>3, <4>1, <6>1 DEF Late
            <6>3. After(w, e.id)
              BY <1>1, <5>2, <6>2, AfterOrder
            <6>4. After(id, e.id)
              BY <1>1, <2>1, <4>1, <6>3, AfterOrder
            <6> QED BY <1>1, <1>4, <6>2, <6>4
          <5> QED BY <5>1, <5>2
        <4> QED BY <4>2, <4>3
      <3> QED BY <3>1, <3>2
    <2> QED BY <2>2, <2>3, <2>4
  <1> QED BY <1>1, <1>7, <1>8, <1>9, <1>10 DEF TableOK, u, t

\* Progress adds up.
LEMMA ProgressAddsUp ==
    ASSUME NEW s \in Table, NEW t \in Table, NEW u \in Table,
           NEW O, NEW Q, NEW R, O \subseteq Q, Q \subseteq R,
           Progress(s, O, t, Q), Progress(t, Q, u, R)
    PROVE  Progress(s, O, u, R)
  <1>1. ASSUME NEW id \in Ids
        PROVE  /\ s[id] # Absent /\ u[id] = Absent => id \in R
               /\ s[id] = Absent /\ u[id] # Absent => id \in R \ O
               /\ s[id] # Absent /\ u[id] # Absent => Gains(s[id], u[id])
    <2>1. /\ s[id] # Absent => s[id] \in Row
          /\ t[id] # Absent => t[id] \in Row
          /\ u[id] # Absent => u[id] \in Row
      BY DEF Table
    <2>2. /\ s[id] # Absent /\ t[id] = Absent => id \in Q
          /\ s[id] = Absent /\ t[id] # Absent => id \in Q \ O
          /\ s[id] # Absent /\ t[id] # Absent => Gains(s[id], t[id])
          /\ t[id] # Absent /\ u[id] = Absent => id \in R
          /\ t[id] = Absent /\ u[id] # Absent => id \in R \ Q
          /\ t[id] # Absent /\ u[id] # Absent => Gains(t[id], u[id])
      BY DEF Progress
    <2> QED BY <2>1, <2>2, GainsOrder
  <1> QED BY <1>1 DEF Progress

\* The table never comes back to what it was: a row that came and went left an
\* earlier copy, which had the key neither then nor before.
LEMMA ProgressIsOneWay ==
    ASSUME NEW s, NEW t, NEW u, NEW O \in SUBSET Ids, NEW Q \in SUBSET Ids,
           NEW R \in SUBSET Ids, O \subseteq Q, Q \subseteq R,
           TableOK(s, O), TableOK(t, Q), TableOK(u, R),
           Progress(s, O, t, Q), Progress(t, Q, u, R), u = s
    PROVE  t = s
  <1>1. s \in Table /\ t \in Table
    BY DEF TableOK
  <1>2. ASSUME NEW id \in Ids PROVE t[id] = s[id]
    <2>1. /\ s[id] # Absent => s[id] \in Row
          /\ t[id] # Absent => t[id] \in Row
      BY <1>1 DEF Table
    <2>2. CASE s[id] # Absent
      <3>1. t[id] # Absent
        BY <2>2 DEF Progress
      <3>2. Gains(s[id], t[id]) /\ Gains(t[id], s[id])
        BY <2>2, <3>1 DEF Progress
      <3> QED BY <2>1, <2>2, <3>1, <3>2, GainsOrder
    <2>3. ASSUME s[id] = Absent, t[id] # Absent PROVE FALSE
      <3>1. id \in Q /\ id \in R /\ u[id] = Absent
        BY <2>3 DEF Progress
      <3>2. Key[id] # NoKey
        BY <3>1 DEF TableOK
      <3>3. PICK w \in Ids : u[w] # Absent /\ u[w].key = Key[id] /\ (w = id \/ After(id, w))
        BY <3>1, <3>2 DEF TableOK
      <3>4. w # id /\ w \in O
        BY <3>1, <3>2, <3>3 DEF TableOK
      <3>5. t[w] # Absent
        BY <3>3, <3>4 DEF Progress
      <3>6. t[id].key = Key[id] /\ t[w].key = Key[id]
        <4>1. t[id].key = Key[id] /\ t[w].key = Key[w] /\ u[w].key = Key[w]
          BY <2>3, <3>1, <3>3, <3>4, <3>5 DEF TableOK
        <4> QED BY <3>3, <4>1
      <3> QED BY <2>3, <3>2, <3>4, <3>5, <3>6 DEF TableOK
    <2> QED BY <2>2, <2>3
  <1> QED BY <1>1, <1>2 DEF Table

-----------------------------------------------------------------------------
(* A batch.  The events are taken one by one; the invariant of that loop   *)
(* relates the table to the one before the batch.                          *)

Reported(O, batch, n) == O \cup {batch[i].id : i \in 1..n}

BatchInv(s, O, batch, origin, n, acc) ==
    LET t == acc.table
    IN  /\ acc \in Acc
        /\ TableOK(t, Reported(O, batch, n))
        /\ Progress(s, O, t, Reported(O, batch, n))
        /\ acc.mutated <=> t # s
        /\ \A i \in 1..n : t[batch[i].id] # Absent
                            => Absorbed(t[batch[i].id], batch[i], origin)
        /\ \A id \in Ids : t[id] # Absent =>
            \/ s[id] # Absent /\ t[id].provider = s[id].provider
            \/ \E i \in 1..n : batch[i].id = id /\ t[id].provider = batch[i].provider

Start(t) == [table |-> t, inserted |-> 0, mutated |-> FALSE]

\* Before its first event a batch has done nothing.
LEMMA BatchBegins ==
    ASSUME NEW s, NEW O \in SUBSET Ids, TableOK(s, O), NEW batch, NEW origin
    PROVE  BatchInv(s, O, batch, origin, 0, Start(s))
  <1>1. Reported(O, batch, 0) = O
    BY DEF Reported
  <1>2. s \in Table
    BY DEF TableOK
  <1>3. Start(s) \in Acc /\ Start(s).table = s /\ Start(s).mutated = FALSE
    BY <1>2 DEF Start, Acc
  <1>4. Progress(s, O, s, O)
    <2>1. \A id \in Ids : s[id] # Absent => s[id] \in Row
      BY <1>2 DEF Table
    <2> QED BY <2>1, GainsOrder DEF Progress
  <1> HIDE DEF Start
  <1> QED BY <1>1, <1>3, <1>4 DEF BatchInv

\* Every event keeps the invariant of the loop.
LEMMA BatchGoesOn ==
    ASSUME NEW s, NEW O \in SUBSET Ids, TableOK(s, O),
           NEW batch \in Seq(Observation), NEW origin \in Origins,
           NEW n \in 1..Len(batch), NEW acc, BatchInv(s, O, batch, origin, n - 1, acc)
    PROVE  BatchInv(s, O, batch, origin, n, Stepped(acc, batch[n], origin))
  <1> DEFINE e == batch[n]
             t == acc.table
             next == Stepped(acc, e, origin)
             u == next.table
             Q == Reported(O, batch, n - 1)
             R == Reported(O, batch, n)
  <1>1. e \in Observation /\ e.id \in Ids /\ \A i \in 1..n : batch[i] \in Observation
    <2>1. \A i \in 1..n : batch[i] \in Observation
      OBVIOUS
    <2>2. \A o \in Observation : o.id \in Ids
      BY DEF Observation
    <2> QED BY <2>1, <2>2
  <1>2. /\ acc \in Acc /\ TableOK(t, Q) /\ Progress(s, O, t, Q)
        /\ acc.mutated <=> t # s
        /\ \A i \in 1..(n - 1) : t[batch[i].id] # Absent
                            => Absorbed(t[batch[i].id], batch[i], origin)
        /\ \A id \in Ids : t[id] # Absent =>
            \/ s[id] # Absent /\ t[id].provider = s[id].provider
            \/ \E i \in 1..(n - 1) : batch[i].id = id /\ t[id].provider = batch[i].provider
    BY DEF BatchInv
  <1>3. n \in Nat /\ n >= 1 /\ \A i \in 1..n : i = n \/ i \in 1..(n - 1)
    OBVIOUS
  <1>4. R = Q \cup {e.id}
    BY <1>3 DEF Reported
  <1>5. Q \in SUBSET Ids /\ O \subseteq Q /\ Q \subseteq R /\ R \in SUBSET Ids
    <2>1. \A i \in 1..n : batch[i].id \in Ids
      BY <1>1 DEF Observation
    <2>2. Q \in SUBSET Ids
      BY <1>3, <2>1 DEF Reported
    <2>3. O \subseteq Q
      BY DEF Reported
    <2> HIDE DEF Q, R
    <2> QED BY <1>1, <1>4, <2>2, <2>3
  <1> HIDE DEF Q, R
  <1>6. /\ next \in Acc
        /\ next.mutated <=> acc.mutated \/ u # t
    BY <1>1, <1>2, <1>5, SteppedRows
  <1>7. TableOK(u, R)
    BY <1>1, <1>2, <1>4, <1>5, SteppedKeeps
  <1>8. /\ Progress(t, Q, u, R)
        /\ \A id \in Ids : id # e.id /\ u[id] # Absent => t[id] # Absent /\ u[id] = t[id]
        /\ u[e.id] # Absent => Absorbed(u[e.id], e, origin)
        /\ u[e.id] # Absent => \/ t[e.id] # Absent /\ u[e.id].provider = t[e.id].provider
                               \/ u[e.id].provider = e.provider
    <2>0. acc \in Acc /\ TableOK(acc.table, Q) /\ Q \in SUBSET Ids /\ e \in Observation
      BY <1>1, <1>2, <1>5
    <2> HIDE DEF e
    <2>1. Progress(t, Q, u, Q \cup {e.id})
      BY <2>0, SteppedProgress
    <2>2. \A id \in Ids : id # e.id /\ u[id] # Absent => t[id] # Absent /\ u[id] = t[id]
      BY <2>0, SteppedProgress, ZenonT(30)
    <2>3. u[e.id] # Absent => /\ Absorbed(u[e.id], e, origin)
                              /\ \/ t[e.id] # Absent /\ u[e.id].provider = t[e.id].provider
                                 \/ u[e.id].provider = e.provider
      BY <2>0, SteppedProgress, ZenonT(30)
    <2> HIDE DEF t, u
    <2> QED BY <1>4, <2>1, <2>2, <2>3
  <1> HIDE DEF u, next, e, t
  <1>9. s \in Table /\ t \in Table /\ u \in Table
    BY <1>2, <1>7 DEF TableOK
  <1>10. Progress(s, O, u, R)
    BY <1>2, <1>5, <1>8, <1>9, ProgressAddsUp
  <1>11. next.mutated <=> u # s
    <2>1. u = s => t = s
      BY <1>2, <1>5, <1>7, <1>8, ProgressIsOneWay
    <2> QED BY <1>2, <1>6, <2>1
  <1>12. ASSUME NEW i \in 1..n, u[batch[i].id] # Absent
         PROVE  Absorbed(u[batch[i].id], batch[i], origin)
    <2>1. CASE i = n
      BY <1>8, <1>12, <2>1 DEF e
    <2>2. CASE i # n
      <3> DEFINE id == batch[i].id
      <3>1. i \in 1..(n - 1) /\ id \in Ids /\ id \in Q
        BY <1>1, <1>3, <2>2 DEF Reported, Q, Observation
      <3>2. t[id] # Absent
        BY <1>8, <1>12, <3>1 DEF Progress
      <3>3. Absorbed(t[id], batch[i], origin) /\ Gains(t[id], u[id])
        BY <1>2, <1>8, <1>12, <3>1, <3>2 DEF Progress
      <3>4. t[id] \in Row /\ u[id] \in Row
        BY <1>9, <1>12, <3>1, <3>2 DEF Table
      <3> QED BY <1>1, <3>3, <3>4, AbsorbedStays
    <2> QED BY <2>1, <2>2
  <1>13. ASSUME NEW id \in Ids, u[id] # Absent
         PROVE  \/ s[id] # Absent /\ u[id].provider = s[id].provider
                \/ \E i \in 1..n : batch[i].id = id /\ u[id].provider = batch[i].provider
    <2>1. CASE id = e.id /\ u[id].provider = e.provider
      BY <1>3, <2>1 DEF e
    <2>2. CASE t[id] # Absent /\ u[id].provider = t[id].provider
      <3>1. \A i \in 1..(n - 1) : i \in 1..n
        BY <1>3
      <3> QED BY <1>2, <2>2, <3>1
    <2> QED BY <1>8, <1>13, <2>1, <2>2
  <1>14. BatchInv(s, O, batch, origin, n, next)
    BY <1>6, <1>7, <1>10, <1>11, <1>12, <1>13 DEF BatchInv, R, u
  <1> QED BY <1>14 DEF next, e

\* f is the loop of a batch up to n events, as ApplyWith writes it.
Loops(f, t, batch, origin, prior, n) ==
    f[n] = IF n = 0 THEN Start(t)
           ELSE ApplyEvent(f[n - 1], batch[n], prior[batch[n].id], origin)

\* The loop ends, whatever the batch.
LEMMA LoopExists ==
    ASSUME NEW t, NEW batch, NEW origin, NEW prior, NEW N \in Nat
    PROVE  \E f : DOMAIN f = 0..N /\ f = [n \in 0..N |-> f[n]]
                    /\ \A n \in 0..N : Loops(f, t, batch, origin, prior, n)
  <1> DEFINE Looped(f, k) == DOMAIN f = 0..k /\ f = [n \in 0..k |-> f[n]]
                                /\ \A n \in 0..k : Loops(f, t, batch, origin, prior, n)
             without == {k \in Nat : ~ \E f : Looped(f, k)}
  <1>1. SUFFICES ASSUME without # {} PROVE FALSE
    OBVIOUS
  <1>2. PICK k \in without : \A n \in without : k <= n
    <2>1. without \in SUBSET Nat
      OBVIOUS
    <2> HIDE DEF without
    <2> QED BY <1>1, <2>1, LeastNatural
  <1>3. CASE k = 0
    <2> DEFINE f == [n \in 0..0 |-> Start(t)]
    <2>1. Looped(f, 0)
      BY DEF Loops
    <2> QED BY <1>2, <1>3, <2>1
  <1>4. CASE k # 0
    <2>1. k - 1 \in Nat /\ k - 1 \notin without
      BY <1>2, <1>4
    <2>2. PICK g : Looped(g, k - 1)
      BY <2>1
    <2> DEFINE f == [n \in 0..k |->
                        IF n = k THEN ApplyEvent(g[k - 1], batch[k], prior[batch[k].id], origin)
                        ELSE g[n]]
    <2>3. ASSUME NEW n \in 0..k PROVE Loops(f, t, batch, origin, prior, n)
      <3>1. CASE n = k
        BY <1>4, <2>1, <3>1 DEF Loops
      <3>2. CASE n # k
        <4>1. n \in 0..(k - 1) /\ (n # 0 => n - 1 \in 0..(k - 1))
          BY <3>2
        <4>2. f[n] = g[n] /\ (n # 0 => f[n - 1] = g[n - 1])
          BY <4>1
        <4>3. Loops(g, t, batch, origin, prior, n)
          BY <2>2, <4>1
        <4> HIDE DEF f
        <4> QED BY <4>2, <4>3 DEF Loops
      <3> QED BY <3>1, <3>2
    <2>4. Looped(f, k)
      BY <2>3
    <2> QED BY <1>2, <2>4
  <1> QED BY <1>3, <1>4

\* ApplyWith is where the loop ends.
LEMMA ApplyWithLoops ==
    ASSUME NEW t, NEW batch \in Seq(Observation), NEW origin, NEW prior
    PROVE  \E f : /\ ApplyWith(t, batch, origin, prior) = f[Len(batch)]
                  /\ \A n \in 0..Len(batch) : Loops(f, t, batch, origin, prior, n)
  <1> DEFINE IsLoop(f) == f = [n \in 0..Len(batch) |->
                IF n = 0 THEN [table |-> t, inserted |-> 0, mutated |-> FALSE]
                ELSE ApplyEvent(f[n - 1], batch[n], prior[batch[n].id], origin)]
             after == CHOOSE f : IsLoop(f)
  <1>1. ApplyWith(t, batch, origin, prior) = after[Len(batch)]
    BY DEF ApplyWith
  <1>2. PICK f : /\ DOMAIN f = 0..Len(batch) /\ f = [n \in 0..Len(batch) |-> f[n]]
                 /\ \A n \in 0..Len(batch) : Loops(f, t, batch, origin, prior, n)
    <2>1. Len(batch) \in Nat
      OBVIOUS
    <2> QED BY <2>1, LoopExists
  <1>3. IsLoop(f)
    BY <1>2 DEF Loops, Start
  <1>4. IsLoop(after)
    BY <1>3
  <1>5. \A n \in 0..Len(batch) : Loops(after, t, batch, origin, prior, n)
    <2> HIDE DEF after
    <2> QED BY <1>4 DEF Loops, Start
  <1> QED BY <1>1, <1>5

\* The early copies a batch may go by: of the table before it, or none.
Copies(s, prior) == prior = s \/ prior = [id \in Ids |-> Absent]

\* With either early copies, each event of the loop is one Stepped.
LEMMA LoopSteps ==
    ASSUME NEW s, NEW O \in SUBSET Ids, TableOK(s, O),
           NEW batch \in Seq(Observation), NEW origin \in Origins,
           NEW prior, Copies(s, prior),
           NEW n \in 1..Len(batch), NEW acc, BatchInv(s, O, batch, origin, n - 1, acc)
    PROVE  ApplyEvent(acc, batch[n], prior[batch[n].id], origin)
                = Stepped(acc, batch[n], origin)
  <1> DEFINE e == batch[n]
             p == prior[e.id]
             t == acc.table
             Q == Reported(O, batch, n - 1)
  <1>1. e \in Observation
    OBVIOUS
  <1>2. e.id \in Ids
    BY <1>1 DEF Observation
  <1>3. acc \in Acc /\ TableOK(t, Q) /\ Progress(s, O, t, Q)
    BY DEF BatchInv
  <1>4. Q \in SUBSET Ids
    <2>1. \A i \in 1..(n - 1) : batch[i] \in Observation
      OBVIOUS
    <2>2. \A i \in 1..(n - 1) : batch[i].id \in Ids
      BY <2>1 DEF Observation
    <2> QED BY <2>2 DEF Reported
  <1> HIDE DEF e, Q, t
  <1>5. PriorOK(p, t, e, Q)
    <2>1. CASE p = Absent
      BY <2>1 DEF PriorOK
    <2>2. CASE p # Absent
      <3>1. p = s[e.id] /\ s[e.id] # Absent
        BY <1>2, <2>2 DEF Copies
      <3>2. p \in Row /\ p.key \in {NoKey, Key[e.id]}
        BY <1>2, <3>1 DEF TableOK, Table
      <3>3. IF t[e.id] = Absent THEN e.id \in Q ELSE Gains(p, t[e.id])
        BY <1>2, <1>3, <3>1 DEF Progress
      <3> QED BY <3>2, <3>3 DEF PriorOK
    <2> QED BY <2>1, <2>2
  <1> HIDE DEF p
  <1>6. ApplyEvent(acc, e, p, origin) = Stepped(acc, e, origin)
    BY <1>1, <1>3, <1>4, <1>5, ApplyIsStepped DEF t
  <1> QED BY <1>6 DEF e, p

\* The invariant holds all along the loop.
LEMMA LoopInvariant ==
    ASSUME NEW s, NEW O \in SUBSET Ids, TableOK(s, O),
           NEW batch \in Seq(Observation), NEW origin \in Origins,
           NEW prior, Copies(s, prior), NEW f,
           \A n \in 0..Len(batch) : Loops(f, s, batch, origin, prior, n)
    PROVE  \A n \in 0..Len(batch) : BatchInv(s, O, batch, origin, n, f[n])
  <1> DEFINE broken == {n \in 0..Len(batch) : ~BatchInv(s, O, batch, origin, n, f[n])}
  <1>1. SUFFICES ASSUME broken # {} PROVE FALSE
    OBVIOUS
  <1>2. PICK n \in broken : \A m \in broken : n <= m
    <2>1. broken \in SUBSET Nat
      OBVIOUS
    <2> HIDE DEF broken
    <2> QED BY <1>1, <2>1, LeastNatural
  <1>3. Loops(f, s, batch, origin, prior, n) /\ Len(batch) \in Nat /\ n \in 0..Len(batch)
    BY <1>2
  <1>4. CASE n = 0
    BY <1>2, <1>3, <1>4, BatchBegins DEF Loops
  <1>5. CASE n # 0
    <2>1. n \in 1..Len(batch) /\ n - 1 \in 0..Len(batch) /\ ~(n <= n - 1)
      BY <1>3, <1>5
    <2>2. BatchInv(s, O, batch, origin, n - 1, f[n - 1])
      BY <1>2, <2>1
    <2>3. f[n] = Stepped(f[n - 1], batch[n], origin)
      BY <1>3, <1>5, <2>1, <2>2, LoopSteps DEF Loops
    <2>4. BatchInv(s, O, batch, origin, n, f[n])
      BY <2>1, <2>2, <2>3, BatchGoesOn
    <2> QED BY <1>2, <2>4
  <1> QED BY <1>4, <1>5

\* A batch from a table as it must be ends with the loop's invariant.
LEMMA BatchEnds ==
    ASSUME NEW s, NEW O \in SUBSET Ids, TableOK(s, O),
           NEW batch \in Seq(Observation), NEW origin \in Origins
    PROVE  BatchInv(s, O, batch, origin, Len(batch), Apply(s, batch, origin))
  <1>1. PICK f : /\ ApplyWith(s, batch, origin, s) = f[Len(batch)]
                 /\ \A n \in 0..Len(batch) : Loops(f, s, batch, origin, s, n)
    BY ApplyWithLoops
  <1>2. \A n \in 0..Len(batch) : BatchInv(s, O, batch, origin, n, f[n])
    BY <1>1, LoopInvariant DEF Copies
  <1>3. Len(batch) \in 0..Len(batch)
    OBVIOUS
  <1> QED BY <1>1, <1>2, <1>3 DEF Apply

\* The gated loop and the ungated one write the same tables and reports.
LEMMA GatedIsUngated ==
    ASSUME NEW s, NEW O \in SUBSET Ids, TableOK(s, O),
           NEW batch \in Seq(Observation), NEW origin \in Origins
    PROVE  Apply(s, batch, origin) = ApplyWith(s, batch, origin, [id \in Ids |-> Absent])
  <1> DEFINE none == [id \in Ids |-> Absent]
  <1>1. PICK f : /\ ApplyWith(s, batch, origin, s) = f[Len(batch)]
                 /\ \A n \in 0..Len(batch) : Loops(f, s, batch, origin, s, n)
    BY ApplyWithLoops
  <1>2. PICK g : /\ ApplyWith(s, batch, origin, none) = g[Len(batch)]
                 /\ \A n \in 0..Len(batch) : Loops(g, s, batch, origin, none, n)
    BY ApplyWithLoops
  <1>3. Copies(s, s) /\ Copies(s, none)
    BY DEF Copies
  <1> HIDE DEF none
  <1>4. /\ \A n \in 0..Len(batch) : BatchInv(s, O, batch, origin, n, f[n])
        /\ \A n \in 0..Len(batch) : BatchInv(s, O, batch, origin, n, g[n])
    BY <1>1, <1>2, <1>3, LoopInvariant
  <1> DEFINE apart == {n \in 0..Len(batch) : f[n] # g[n]}
  <1>5. apart = {}
    <2>1. SUFFICES ASSUME apart # {} PROVE FALSE
      OBVIOUS
    <2>2. PICK n \in apart : \A m \in apart : n <= m
      <3>1. apart \in SUBSET Nat
        OBVIOUS
      <3> HIDE DEF apart
      <3> QED BY <2>1, <3>1, LeastNatural
    <2>3. Loops(f, s, batch, origin, s, n) /\ Loops(g, s, batch, origin, none, n)
      BY <1>1, <1>2, <2>2
    <2>4. CASE n = 0
      BY <2>2, <2>3, <2>4 DEF Loops
    <2>5. CASE n # 0
      <3>1. n \in 1..Len(batch) /\ n - 1 \in 0..Len(batch) /\ ~(n <= n - 1)
        BY <2>2, <2>5
      <3>2. f[n - 1] = g[n - 1] /\ BatchInv(s, O, batch, origin, n - 1, f[n - 1])
                /\ BatchInv(s, O, batch, origin, n - 1, g[n - 1])
        BY <1>4, <2>2, <3>1
      <3>3. f[n] = Stepped(f[n - 1], batch[n], origin)
        BY <1>3, <2>3, <2>5, <3>1, <3>2, LoopSteps DEF Loops
      <3>4. g[n] = Stepped(g[n - 1], batch[n], origin)
        BY <1>3, <2>3, <2>5, <3>1, <3>2, LoopSteps DEF Loops
      <3> QED BY <2>2, <3>2, <3>3, <3>4
    <2> QED BY <2>4, <2>5
  <1>6. Len(batch) \in 0..Len(batch)
    OBVIOUS
  <1> QED BY <1>1, <1>2, <1>5, <1>6 DEF Apply, none

\* An event that is reported, and absorbed if its row is there, changes nothing.
LEMMA RepeatChangesNothing ==
    ASSUME NEW acc \in Acc, NEW O \in SUBSET Ids, TableOK(acc.table, O),
           NEW e \in Observation, NEW origin \in Origins, e.id \in O,
           acc.table[e.id] # Absent => Absorbed(acc.table[e.id], e, origin)
    PROVE  Stepped(acc, e, origin) = acc
  <1> DEFINE t == acc.table
  <1>1. e.id \in Ids /\ t \in Table
    BY DEF Observation, Acc
  <1>2. CASE t[e.id] = Absent
    <2>1. PICK w \in Ids : /\ t[w] # Absent /\ t[w].key = Key[e.id]
                           /\ Key[e.id] # NoKey /\ (w = e.id \/ After(e.id, w))
      BY <1>2 DEF TableOK
    <2>2. \E v \in Rivals(t, e) : After(e.id, v)
      BY <1>2, <2>1 DEF Rivals, Owners, Present
    <2>3. [t EXCEPT ![e.id] = Absent] = t
      BY <1>1, <1>2 DEF Table
    <2>4. (acc.mutated \/ t[e.id] # Absent) = acc.mutated
      BY <1>2, AccIsRecord
    <2> QED BY <2>2, <2>3, <2>4, AccIsRecord DEF Stepped
  <1>3. CASE t[e.id] # Absent
    <2>1. t[e.id].key = Key[e.id]
      BY <1>3 DEF TableOK
    <2>2. Rivals(t, e) = {}
      BY <1>3, <2>1, OneRival
    <2>3. NewRow(t, e, origin) = t[e.id]
      BY <1>3 DEF NewRow, Absorbed
    <2>4. [id \in Ids |-> IF id = e.id THEN NewRow(t, e, origin)
                         ELSE IF id \in Rivals(t, e) THEN Absent ELSE t[id]] = t
      BY <1>1, <2>2, <2>3 DEF Table
    <2>5. (acc.mutated \/ Rivals(t, e) # {} \/ NewRow(t, e, origin) # t[e.id]) = acc.mutated
      BY <2>2, <2>3, AccIsRecord
    <2>6. acc.inserted + (IF t[e.id] = Absent THEN 1 ELSE 0) = acc.inserted
      BY <1>3, AccIsRecord
    <2>7. ~ \E w \in Rivals(t, e) : After(e.id, w)
      BY <2>2
    <2> QED BY <2>4, <2>5, <2>6, <2>7, AccIsRecord DEF Stepped
  <1> QED BY <1>2, <1>3

\* A batch of such events changes nothing.
LEMMA ReplayLoop ==
    ASSUME NEW s, NEW O \in SUBSET Ids, TableOK(s, O),
           NEW batch \in Seq(Observation), NEW origin \in Origins,
           \A i \in 1..Len(batch) :
                /\ batch[i].id \in O
                /\ s[batch[i].id] # Absent => Absorbed(s[batch[i].id], batch[i], origin)
    PROVE  Apply(s, batch, origin) = Start(s)
  <1>1. PICK f : /\ ApplyWith(s, batch, origin, s) = f[Len(batch)]
                 /\ \A n \in 0..Len(batch) : Loops(f, s, batch, origin, s, n)
    BY ApplyWithLoops
  <1>2. \A n \in 0..Len(batch) : BatchInv(s, O, batch, origin, n, f[n])
    BY <1>1, LoopInvariant DEF Copies
  <1>3. Start(s) \in Acc /\ Start(s).table = s
    BY DEF Start, Acc, TableOK
  <1> DEFINE moved == {n \in 0..Len(batch) : f[n] # Start(s)}
  <1>4. moved = {}
    <2>1. SUFFICES ASSUME moved # {} PROVE FALSE
      OBVIOUS
    <2>2. PICK n \in moved : \A m \in moved : n <= m
      <3>1. moved \in SUBSET Nat
        OBVIOUS
      <3> HIDE DEF moved
      <3> QED BY <2>1, <3>1, LeastNatural
    <2>3. Loops(f, s, batch, origin, s, n)
      BY <1>1, <2>2
    <2>4. CASE n = 0
      BY <2>2, <2>3, <2>4 DEF Loops
    <2>5. CASE n # 0
      <3>1. n \in 1..Len(batch) /\ n - 1 \in 0..Len(batch) /\ ~(n <= n - 1)
        BY <2>2, <2>5
      <3>2. f[n - 1] = Start(s) /\ BatchInv(s, O, batch, origin, n - 1, f[n - 1])
        BY <1>2, <2>2, <3>1
      <3>3. f[n] = Stepped(f[n - 1], batch[n], origin)
        BY <2>3, <2>5, <3>1, <3>2, LoopSteps DEF Loops, Copies
      <3>4. Stepped(Start(s), batch[n], origin) = Start(s)
        <4>1. batch[n] \in Observation
          BY <3>1
        <4> DEFINE acc == Start(s)
                   e == batch[n]
        <4> HIDE DEF acc
        <4>2. /\ acc \in Acc /\ TableOK(acc.table, O) /\ e.id \in O
              /\ acc.table[e.id] # Absent => Absorbed(acc.table[e.id], e, origin)
          BY <1>3, <3>1 DEF acc
        <4> HIDE DEF e
        <4>3. Stepped(acc, e, origin) = acc
          BY <4>1, <4>2, RepeatChangesNothing DEF e
        <4> QED BY <4>3 DEF acc, e
      <3> QED BY <2>2, <3>2, <3>3, <3>4
    <2> QED BY <2>4, <2>5
  <1>5. Len(batch) \in 0..Len(batch)
    OBVIOUS
  <1> QED BY <1>1, <1>4, <1>5 DEF Apply

-----------------------------------------------------------------------------
(* The inductive invariant.                                                *)

\* No row has a label of the disproved rule once Open has cleared them.
NoFingerprints(t) == \A id \in Ids : t[id] # Absent => t[id].provider \notin Fingerprints

\* The history variable says what it is for: rows have their best evidence,
\* and an id that nobody reported and that has no row has none.
EvidenceOK ==
    \A id \in Ids :
        /\ events[id] # Absent => Rank(events[id].provider) = strongest[id]
        /\ events[id] = Absent /\ id \notin observed => strongest[id] = 0

StoreInv ==
    /\ deployment \in Deployments
    /\ demoted \in BOOLEAN
    /\ observed \in SUBSET Ids
    /\ TableOK(events, observed)
    /\ EvidenceOK
    /\ demoted => NoFingerprints(events)

\* A database from before dedup_key has no keys to be wrong about.
LEMMA StoreInvInit == Init => StoreInv
  <1> SUFFICES ASSUME Init PROVE StoreInv
    OBVIOUS
  <1>1. /\ deployment \in Deployments /\ demoted = FALSE /\ observed = {}
        /\ events \in [Ids -> Row \cup {Absent}]
        /\ \A id \in Ids : events[id] # Absent => events[id].key = NoKey
    BY EventStoreConstants DEF Init
  <1>2. TableOK(events, observed)
    BY <1>1 DEF TableOK, Table
  <1>3. EvidenceOK
    BY DEF Init, EvidenceOK, Rank
  <1> QED BY <1>1, <1>2, <1>3 DEF StoreInv

\* Clearing the fingerprints touches nothing but labels.
LEMMA MigrateRows ==
    ASSUME StoreInv, Migrate
    PROVE  /\ events' \in Table
           /\ \A id \in Ids : events'[id] = Absent <=> events[id] = Absent
           /\ \A id \in Ids : events[id] # Absent =>
                /\ events'[id].key = events[id].key /\ events'[id].cols = events[id].cols
                /\ events'[id].origin = events[id].origin
                /\ events'[id].device = events[id].device
                /\ events'[id].source = events[id].source
                /\ events'[id] # events[id] => events'[id].provider = "unknown"
                /\ events'[id].provider \notin Fingerprints
  <1>1. events \in Table
    BY DEF StoreInv, TableOK
  <1> DEFINE old(id) == events[id] # Absent /\ events[id].provider \in Fingerprints
             clean(id) == [events[id] EXCEPT !.provider = "unknown"]
  <1>2. events' = [id \in Ids |-> IF old(id) THEN clean(id) ELSE events[id]]
    BY DEF Migrate
  <1>3. ASSUME NEW id \in Ids, events[id] # Absent
        PROVE  /\ clean(id) \in Row /\ clean(id).key = events[id].key
               /\ clean(id).cols = events[id].cols /\ clean(id).origin = events[id].origin
               /\ clean(id).device = events[id].device /\ clean(id).source = events[id].source
               /\ clean(id).provider = "unknown"
    <2>1. events[id] \in Row
      BY <1>1, <1>3 DEF Table
    <2> QED BY <2>1 DEF Row
  <1>4. "unknown" \notin Fingerprints
    BY DEF Fingerprints
  <1> HIDE DEF clean
  <1>5. events' \in Table
    <2>1. \A id \in Ids : (IF old(id) THEN clean(id) ELSE events[id]) \in Row \cup {Absent}
      BY <1>1, <1>3 DEF Table
    <2> HIDE DEF old
    <2> QED BY <1>2, <2>1 DEF Table
  <1>6. \A id \in Ids : old(id) => clean(id) # Absent
    BY <1>3, RowIsPresent
  <1>7. \A id \in Ids : events'[id] = Absent <=> events[id] = Absent
    BY <1>2, <1>6
  <1>8. ASSUME NEW id \in Ids, events[id] # Absent
        PROVE  /\ events'[id].key = events[id].key /\ events'[id].cols = events[id].cols
               /\ events'[id].origin = events[id].origin
               /\ events'[id].device = events[id].device
               /\ events'[id].source = events[id].source
               /\ events'[id] # events[id] => events'[id].provider = "unknown"
               /\ events'[id].provider \notin Fingerprints
    BY <1>2, <1>3, <1>4, <1>8
  <1> QED BY <1>5, <1>7, <1>8

LEMMA MigrateKeeps ==
    ASSUME StoreInv, Migrate
    PROVE  StoreInv'
  <1>1. /\ deployment' = deployment /\ observed' = observed /\ demoted' \in BOOLEAN
        /\ strongest' = [id \in Ids |-> IF events'[id] = events[id] THEN strongest[id]
                                        ELSE ProviderRank("unknown")]
    BY DEF Migrate
  <1>2. /\ events' \in Table
        /\ \A id \in Ids : events'[id] = Absent <=> events[id] = Absent
        /\ \A id \in Ids : events[id] # Absent => events'[id].key = events[id].key
        /\ \A id \in Ids : events[id] # Absent /\ events'[id] # events[id]
                                => events'[id].provider = "unknown"
        /\ \A id \in Ids : events[id] # Absent => events'[id].provider \notin Fingerprints
    BY MigrateRows
  <1>3. observed \in SUBSET Ids /\ TableOK(events, observed)
    BY DEF StoreInv
  <1>4. TableOK(events', observed)
    <2>1. \A id \in Ids : events'[id] # Absent => events'[id].key \in {NoKey, Key[id]}
      BY <1>2, <1>3 DEF TableOK
    <2>2. \A i, j \in Ids : /\ events'[i] # Absent /\ events'[j] # Absent
                            /\ events'[i].key = events'[j].key /\ events'[i].key # NoKey
                            => i = j
      BY <1>2, <1>3 DEF TableOK
    <2>3. \A id \in Ids : events'[id] # Absent /\ events'[id].key # NoKey => id \in observed
      BY <1>2, <1>3 DEF TableOK
    <2>4. \A id \in observed :
            /\ Key[id] = NoKey => events'[id] # Absent
            /\ events'[id] # Absent => events'[id].key = Key[id]
      BY <1>2, <1>3 DEF TableOK
    <2>5. ASSUME NEW id \in observed, Key[id] # NoKey
          PROVE  \E w \in Ids : /\ events'[w] # Absent /\ events'[w].key = Key[id]
                                /\ w = id \/ After(id, w)
      <3>1. PICK w \in Ids : /\ events[w] # Absent /\ events[w].key = Key[id]
                             /\ w = id \/ After(id, w)
        BY <1>3, <2>5 DEF TableOK
      <3> QED BY <1>2, <3>1
    <2> QED BY <1>2, <2>1, <2>2, <2>3, <2>4, <2>5 DEF TableOK
  <1>5. ASSUME NEW id \in Ids
        PROVE  /\ events'[id] # Absent => Rank(events'[id].provider) = strongest'[id]
               /\ events'[id] = Absent /\ id \notin observed => strongest'[id] = 0
    <2>1. /\ events[id] # Absent => Rank(events[id].provider) = strongest[id]
          /\ events[id] = Absent /\ id \notin observed => strongest[id] = 0
      BY DEF StoreInv, EvidenceOK
    <2>2. CASE events'[id] = events[id]
      BY <1>1, <2>1, <2>2
    <2>3. CASE events'[id] # events[id]
      BY <1>1, <1>2, <2>3 DEF Rank
    <2> QED BY <2>2, <2>3
  <1>6. EvidenceOK'
    BY <1>1, <1>5 DEF EvidenceOK
  <1>7. NoFingerprints(events')
    BY <1>2 DEF NoFingerprints
  <1>8. deployment \in Deployments
    BY DEF StoreInv
  <1>9. TableOK(events, observed)'
    BY <1>1, <1>4 DEF TableOK, Table, Row, Absent
  <1>10. NoFingerprints(events)'
    BY <1>7 DEF NoFingerprints
  <1> QED BY <1>1, <1>3, <1>6, <1>8, <1>9, <1>10 DEF StoreInv

\* What a batch did, in the terms of the loop's invariant.
LEMMA InsertIs ==
    ASSUME StoreInv, NEW batch \in Traffic[deployment], NEW origin \in Origins,
           InsertEvents(batch, origin)
    PROVE  /\ batch \in Seq(Observation)
           /\ BatchInv(events, observed, batch, origin, Len(batch),
                       Apply(events, batch, origin))
           /\ events' = Apply(events, batch, origin).table
           /\ observed' = Reported(observed, batch, Len(batch))
           /\ observed' \in SUBSET Ids
           /\ demoted /\ demoted' = demoted /\ deployment' = deployment
  <1>1. deployment \in Deployments /\ observed \in SUBSET Ids /\ TableOK(events, observed)
    BY DEF StoreInv
  <1>2. batch \in Seq(Observation)
    BY <1>1, EventStoreConstants
  <1>3. BatchInv(events, observed, batch, origin, Len(batch), Apply(events, batch, origin))
    BY <1>1, <1>2, BatchEnds
  <1>4. observed' = Reported(observed, batch, Len(batch))
    BY <1>2 DEF InsertEvents, Reported
  <1>5. Reported(observed, batch, Len(batch)) \in SUBSET Ids
    <2>1. \A i \in 1..Len(batch) : batch[i] \in Observation
      BY <1>2
    <2>2. \A i \in 1..Len(batch) : batch[i].id \in Ids
      BY <2>1 DEF Observation
    <2> QED BY <1>1, <2>2 DEF Reported
  <1> QED BY <1>2, <1>3, <1>4, <1>5 DEF InsertEvents

\* A row outranks the evidence it has absorbed.
LEMMA AbsorbedRank ==
    ASSUME NEW r, NEW e, NEW origin, Absorbed(r, e, origin), Rank(r.provider) >= 1
    PROVE  Rank(e.provider) \in Nat /\ Rank(e.provider) <= Rank(r.provider)
  <1> DEFINE named == e.provider # ""
             new == Merged(r, e, origin)
  <1>1. new = r
    BY DEF Absorbed
  <1>2. new.provider = IF named /\ Rank(e.provider) > Rank(r.provider)
                       THEN e.provider ELSE r.provider
    BY DEF Merged
  <1>3. Rank(e.provider) \in Nat /\ Rank(r.provider) \in Nat
    BY RankIsNat
  <1>4. ~named => Rank(e.provider) = 1
    BY RankIsNat
  <1> HIDE DEF named, new
  <1>5. CASE r.provider = e.provider
    BY <1>3, <1>5
  <1> QED BY <1>1, <1>2, <1>3, <1>4, <1>5

\* The evidence of a row after a batch is the strongest of what it had and
\* what the batch reported for it.
LEMMA InsertRank ==
    ASSUME StoreInv, NEW batch \in Traffic[deployment], NEW origin \in Origins,
           InsertEvents(batch, origin), NEW id \in Ids
    PROVE  /\ events'[id] # Absent => Rank(events'[id].provider) = strongest'[id]
           /\ events'[id] # Absent => events'[id].provider \notin Fingerprints
           /\ events'[id] = Absent /\ id \notin observed' => strongest'[id] = 0
  <1> DEFINE t == Apply(events, batch, origin).table
             N == Len(batch)
             Q == Reported(observed, batch, N)
             reports == {ProviderRank(batch[i].provider) :
                            i \in {j \in DOMAIN batch : batch[j].id = id}}
             ranks == {strongest[id]} \cup reports
  <1>1. /\ batch \in Seq(Observation) /\ events' = t /\ observed' = Q /\ demoted
        /\ BatchInv(events, observed, batch, origin, N, Apply(events, batch, origin))
    BY InsertIs
  <1>2. /\ t \in Table /\ Progress(events, observed, t, Q)
        /\ \A i \in 1..N : t[batch[i].id] # Absent
                            => Absorbed(t[batch[i].id], batch[i], origin)
        /\ t[id] # Absent =>
            \/ events[id] # Absent /\ t[id].provider = events[id].provider
            \/ \E i \in 1..N : batch[i].id = id /\ t[id].provider = batch[i].provider
    BY <1>1 DEF BatchInv, TableOK
  <1>3. strongest'[id] = Max(ranks)
    BY DEF InsertEvents
  <1>4. \A i \in 1..N : batch[i] \in Observation /\ DOMAIN batch = 1..N
    BY <1>1
  <1>5. \A i \in 1..N : batch[i].provider \notin Fingerprints
    BY <1>4, EventStoreConstants DEF Observation
  <1>6. /\ events[id] # Absent => Rank(events[id].provider) = strongest[id]
        /\ events[id] # Absent => events[id].provider \notin Fingerprints
        /\ events[id] = Absent /\ id \notin observed => strongest[id] = 0
    BY <1>1 DEF StoreInv, EvidenceOK, NoFingerprints
  <1>7. reports = {Rank(batch[i].provider) : i \in {j \in 1..N : batch[j].id = id}}
    BY <1>1 DEF Rank
  <1>8. ASSUME t[id] = Absent, id \notin Q PROVE Max(ranks) = 0
    <2>1. ~ \E i \in 1..N : batch[i].id = id
      BY <1>8 DEF Reported
    <2>2. reports = {}
      BY <1>7, <2>1
    <2>3. events[id] = Absent /\ id \notin observed
      BY <1>2, <1>8 DEF Progress, Reported
    <2>4. ranks = {0}
      BY <1>6, <2>2, <2>3
    <2> HIDE DEF ranks
    <2> QED BY <2>4 DEF Max
  <1>9. ASSUME t[id] # Absent
        PROVE  Rank(t[id].provider) = Max(ranks) /\ t[id].provider \notin Fingerprints
    <2> DEFINE r == t[id]
    <2>1. r \in Row
      BY <1>2, <1>9 DEF Table
    <2>2. r.provider \notin Fingerprints
      BY <1>2, <1>5, <1>6, <1>9
    <2>3. Rank(r.provider) \in Nat /\ Rank(r.provider) >= 1
      BY <2>2, RankIsNat
    <2>4. ASSUME NEW i \in 1..N, batch[i].id = id
          PROVE  Rank(batch[i].provider) \in Nat /\ Rank(batch[i].provider) <= Rank(r.provider)
      <3>1. Absorbed(r, batch[i], origin)
        BY <1>2, <1>9, <2>4
      <3> HIDE DEF r
      <3> QED BY <2>3, <3>1, AbsorbedRank
    <2>5. strongest[id] \in Nat /\ strongest[id] <= Rank(r.provider)
      <3>1. CASE events[id] # Absent
        <4>1. Gains(events[id], r)
          BY <1>2, <1>9, <3>1 DEF Progress
        <4>2. Rank(events[id].provider) \in Nat
          BY RankIsNat
        <4>3. CASE r.provider = events[id].provider
          BY <1>6, <2>3, <3>1, <4>3
        <4> QED BY <1>6, <2>3, <3>1, <4>1, <4>2, <4>3 DEF Gains
      <3>2. CASE events[id] = Absent
        <4>1. id \notin observed
          BY <1>2, <1>9, <3>2 DEF Progress
        <4> QED BY <1>6, <2>3, <3>2, <4>1
      <3> QED BY <3>1, <3>2
    <2>6. Rank(r.provider) \in ranks
      <3>1. CASE events[id] # Absent /\ r.provider = events[id].provider
        BY <1>6, <3>1
      <3>2. CASE \E i \in 1..N : batch[i].id = id /\ r.provider = batch[i].provider
        <4>1. PICK i \in 1..N : batch[i].id = id /\ r.provider = batch[i].provider
          BY <3>2
        <4>2. Rank(r.provider) = Rank(batch[i].provider)
          BY <4>1
        <4>3. Rank(batch[i].provider) \in reports
          BY <1>7, <4>1
        <4> HIDE DEF reports
        <4> QED BY <4>2, <4>3
      <3> QED BY <1>2, <1>9, <3>1, <3>2
    <2>7. \A x \in ranks : x \in Nat /\ x <= Rank(r.provider)
      <3>1. ASSUME NEW x \in reports PROVE x \in Nat /\ x <= Rank(r.provider)
        <4>1. PICK i \in {j \in 1..N : batch[j].id = id} : x = Rank(batch[i].provider)
          BY <1>7
        <4> QED BY <2>4, <4>1
      <3> HIDE DEF reports
      <3> QED BY <2>5, <3>1
    <2> HIDE DEF ranks, r
    <2> DEFINE top == Rank(r.provider)
    <2> HIDE DEF top
    <2>8. top \in ranks /\ top \in Nat /\ \A x \in ranks : x \in Nat /\ x <= top
      BY <2>3, <2>6, <2>7 DEF top
    <2>9. Max(ranks) \in ranks /\ \A x \in ranks : Max(ranks) >= x
      BY <2>8 DEF Max
    <2>10. Max(ranks) = top
      <3> DEFINE m == Max(ranks)
      <3>1. m \in ranks /\ \A x \in ranks : m >= x
        BY <2>9
      <3> HIDE DEF m
      <3>2. m \in Nat /\ m <= top /\ m >= top
        BY <2>8, <3>1
      <3>3. m = top
        BY <2>8, <3>2
      <3> QED BY <3>3 DEF m
    <2> QED BY <2>2, <2>10 DEF top, r
  <1> HIDE DEF t, Q, ranks
  <1> QED BY <1>1, <1>3, <1>8, <1>9

LEMMA InsertKeeps ==
    ASSUME StoreInv, NEW batch \in Traffic[deployment], NEW origin \in Origins,
           InsertEvents(batch, origin)
    PROVE  StoreInv'
  <1>1. /\ BatchInv(events, observed, batch, origin, Len(batch), Apply(events, batch, origin))
        /\ events' = Apply(events, batch, origin).table
        /\ observed' = Reported(observed, batch, Len(batch)) /\ observed' \in SUBSET Ids
        /\ demoted /\ demoted' = demoted /\ deployment' = deployment
    BY InsertIs
  <1>2. TableOK(events', observed')
    BY <1>1 DEF BatchInv
  <1>3. TableOK(events, observed)'
    BY <1>2 DEF TableOK, Table, Row, Absent
  <1>4. EvidenceOK' /\ NoFingerprints(events)'
    BY InsertRank DEF EvidenceOK, NoFingerprints
  <1>5. deployment \in Deployments /\ demoted \in BOOLEAN
    BY DEF StoreInv
  <1> QED BY <1>1, <1>3, <1>4, <1>5 DEF StoreInv

LEMMA StoreInvStep == StoreInv /\ [Next]_vars => StoreInv'
  <1> SUFFICES ASSUME StoreInv, [Next]_vars PROVE StoreInv'
    OBVIOUS
  <1>1. CASE Migrate
    BY <1>1, MigrateKeeps
  <1>2. CASE \E batch \in Batches, origin \in Origins : InsertEvents(batch, origin)
    BY <1>2, InsertKeeps DEF Batches
  <1>3. CASE UNCHANGED vars
    BY <1>3 DEF vars, StoreInv, EvidenceOK, NoFingerprints, TableOK
  <1> QED BY <1>1, <1>2, <1>3 DEF Next

\* The invariant of the events table.
THEOREM StoreInvariant == Spec => []StoreInv
  BY StoreInvInit, StoreInvStep, PTL DEF Spec

-----------------------------------------------------------------------------
(* The properties of the table.                                            *)

\* Every batch that may come is a sequence of observations.
LEMMA BatchesAreSequences ==
    ASSUME StoreInv, NEW batch \in Batches
    PROVE  batch \in Seq(Observation)
  <1>1. deployment \in Deployments
    BY DEF StoreInv
  <1> QED BY <1>1, EventStoreConstants DEF Batches

\* "Every skip is provably a no-op" (insertEventsFromTx), whatever the batch
\* repeats and however long it is.
THEOREM EverySkipIsANoOp == Spec => []GatesAreNoOps
  <1>1. StoreInv => GatesAreNoOps
    BY BatchesAreSequences, GatedIsUngated DEF GatesAreNoOps, StoreInv
  <1> QED BY <1>1, StoreInvariant, PTL

\* Of the copies of a generation the earliest one stays (dropCopy).
THEOREM EarliestCopyStays == Spec => []EarliestCopySurvives
  <1>1. ASSUME StoreInv, NEW id \in observed
        PROVE  LET copies == {c \in observed : Key[c] # NoKey /\ Key[c] = Key[id]}
                   first == {c \in copies : \A d \in copies \ {c} : ~Later([id |-> c], d)}
               IN  IF Key[id] = NoKey THEN events[id] # Absent
                   ELSE /\ copies \cap Present(events) = first
                        /\ \A c \in first : events[c].key = Key[id]
    <2> DEFINE copies == {c \in observed : Key[c] # NoKey /\ Key[c] = Key[id]}
               first == {c \in copies : \A d \in copies \ {c} : ~Later([id |-> c], d)}
    <2>1. observed \in SUBSET Ids /\ TableOK(events, observed) /\ id \in observed
      BY <1>1 DEF StoreInv
    <2>2. CASE Key[id] = NoKey
      BY <2>1, <2>2 DEF TableOK
    <2>3. CASE Key[id] # NoKey
      <3>1. PICK w \in Ids : events[w] # Absent /\ events[w].key = Key[id]
        BY <2>1, <2>3 DEF TableOK
      <3>2. w \in copies
        BY <2>1, <2>3, <3>1 DEF TableOK
      <3>3. ASSUME NEW c \in copies, events[c] # Absent PROVE c = w
        <4>1. events[c].key = Key[id] /\ c \in Ids
          BY <2>1, <3>3 DEF TableOK
        <4> QED BY <2>1, <2>3, <3>1, <3>3, <4>1 DEF TableOK
      <3>4. ASSUME NEW d \in copies, d # w PROVE After(d, w)
        <4>1. PICK v \in Ids : /\ events[v] # Absent /\ events[v].key = Key[d]
                               /\ v = d \/ After(d, v)
          BY <2>1, <3>4 DEF TableOK
        <4>2. v = w
          BY <2>1, <2>3, <3>1, <3>4, <4>1 DEF TableOK
        <4> QED BY <3>4, <4>1, <4>2
      <3>5. \A c, d \in Ids : Later([id |-> c], d) <=> After(c, d)
        BY DEF Later, After
      <3>6. \A d \in copies : d \in Ids
        BY <2>1
      <3>7. w \in first
        BY <3>1, <3>2, <3>4, <3>5, <3>6, AfterOrder
      <3>8. ASSUME NEW c \in first PROVE c = w
        <4>1. SUFFICES ASSUME c # w PROVE FALSE
          OBVIOUS
        <4>2. c \in copies /\ After(c, w) /\ w \in copies \ {c}
          BY <3>2, <3>4, <4>1
        <4>3. ~Later([id |-> c], w)
          BY <4>2
        <4> QED BY <3>5, <3>6, <4>2, <4>3
      <3>9. first = {w}
        BY <3>7, <3>8
      <3>10. copies \cap Present(events) = {w}
        BY <3>1, <3>2, <3>3 DEF Present
      <3> HIDE DEF first, copies
      <3>11. copies \cap Present(events) = first /\ \A c \in first : events[c].key = Key[id]
        BY <3>1, <3>9, <3>10
      <3> QED BY <2>3, <3>11 DEF copies, first
    <2> QED BY <2>2, <2>3
  <1>2. StoreInv => EarliestCopySurvives
    BY <1>1 DEF EarliestCopySurvives
  <1> QED BY <1>2, StoreInvariant, PTL

\* Subscribers are notified if and only if the table changed.
THEOREM ReportIsTrue == Spec => []MutatedIffChanged
  <1>1. ASSUME StoreInv, NEW batch \in Batches, NEW origin \in Origins
        PROVE  Apply(events, batch, origin).mutated
                    <=> Apply(events, batch, origin).table # events
    <2>1. batch \in Seq(Observation) /\ observed \in SUBSET Ids /\ TableOK(events, observed)
      BY <1>1, BatchesAreSequences DEF StoreInv
    <2>2. BatchInv(events, observed, batch, origin, Len(batch), Apply(events, batch, origin))
      BY <2>1, BatchEnds
    <2> QED BY <2>2 DEF BatchInv
  <1>2. StoreInv => MutatedIffChanged
    BY <1>1 DEF MutatedIffChanged
  <1> QED BY <1>2, StoreInvariant, PTL

\* A batch delivered again changes nothing and reports nothing.
THEOREM IngestIsIdempotent == Spec => []ReplayChangesNothing
  <1>1. ASSUME StoreInv, NEW batch \in Batches, NEW origin \in Origins
        PROVE  LET once == Apply(events, batch, origin).table
               IN  Apply(once, batch, origin)
                        = [table |-> once, inserted |-> 0, mutated |-> FALSE]
    <2> DEFINE once == Apply(events, batch, origin).table
               Q == Reported(observed, batch, Len(batch))
    <2>1. batch \in Seq(Observation) /\ observed \in SUBSET Ids /\ TableOK(events, observed)
      BY <1>1, BatchesAreSequences DEF StoreInv
    <2>2. BatchInv(events, observed, batch, origin, Len(batch), Apply(events, batch, origin))
      BY <2>1, BatchEnds
    <2>3. /\ TableOK(once, Q)
          /\ \A i \in 1..Len(batch) : once[batch[i].id] # Absent
                                        => Absorbed(once[batch[i].id], batch[i], origin)
      BY <2>2 DEF BatchInv
    <2>4. Q \in SUBSET Ids /\ \A i \in 1..Len(batch) : batch[i].id \in Q
      <3>1. \A i \in 1..Len(batch) : batch[i] \in Observation
        BY <2>1
      <3>2. \A i \in 1..Len(batch) : batch[i].id \in Ids
        BY <3>1 DEF Observation
      <3> QED BY <2>1, <3>2 DEF Reported
    <2> HIDE DEF once, Q
    <2>5. Apply(once, batch, origin) = Start(once)
      BY <2>1, <2>3, <2>4, ReplayLoop
    <2> QED BY <2>5 DEF Start, once
  <1>2. StoreInv => ReplayChangesNothing
    BY <1>1 DEF ReplayChangesNothing
  <1> QED BY <1>2, StoreInvariant, PTL

\* Every row has the strongest evidence that was ever reported for it.
THEOREM EvidenceSettles == Spec => []StrongestEvidenceWins
  <1>1. StoreInv => StrongestEvidenceWins
    BY DEF StoreInv, EvidenceOK, StrongestEvidenceWins, Present, Rank
  <1> QED BY <1>1, StoreInvariant, PTL

\* As long as a row exists, nothing that was set in it is overwritten.
THEOREM RowsGain == Spec => RowsOnlyGain
  <1> DEFINE Grew == \A id \in Present(events) \cap Present(events') :
                LET r == events[id] n == events'[id]
                IN  /\ \A c \in Columns : r.cols[c] # Empty => n.cols[c] = r.cols[c]
                    /\ r.origin = "self" => n.origin = "self" /\ n.device = r.device
                    /\ r.source # "proxy" => n.source = r.source
                    /\ r.key # NoKey => n.key = r.key
  <1>1. StoreInv /\ [Next]_vars => [Grew]_vars
    <2> SUFFICES ASSUME StoreInv, [Next]_vars PROVE Grew \/ UNCHANGED vars
      OBVIOUS
    <2>1. CASE Migrate
      <3>1. \A id \in Ids : events[id] # Absent =>
                /\ events'[id].key = events[id].key /\ events'[id].cols = events[id].cols
                /\ events'[id].origin = events[id].origin
                /\ events'[id].device = events[id].device
                /\ events'[id].source = events[id].source
        BY <2>1, MigrateRows
      <3> QED BY <3>1 DEF Present
    <2>2. CASE \E batch \in Batches, origin \in Origins : InsertEvents(batch, origin)
      <3>1. PICK batch \in Batches, origin \in Origins : InsertEvents(batch, origin)
        BY <2>2
      <3>2. /\ BatchInv(events, observed, batch, origin, Len(batch),
                        Apply(events, batch, origin))
            /\ events' = Apply(events, batch, origin).table
        BY <3>1, InsertIs DEF Batches
      <3>3. Progress(events, observed, events', Reported(observed, batch, Len(batch)))
        BY <3>2 DEF BatchInv
      <3>4. \A id \in Ids : events[id] # Absent /\ events'[id] # Absent
                                => Gains(events[id], events'[id])
        BY <3>3 DEF Progress
      <3> QED BY <3>4 DEF Present, Gains
    <2> QED BY <2>1, <2>2 DEF Next
  <1>2. RowsOnlyGain <=> [][Grew]_vars
    BY DEF RowsOnlyGain
  <1> QED BY <1>1, <1>2, StoreInvariant, PTL DEF Spec
=============================================================================
