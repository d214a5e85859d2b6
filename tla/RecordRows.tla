----------------------------- MODULE RecordRows -----------------------------
(***************************************************************************)
(* The rows of the table state_log and what each statement of the record   *)
(* store makes of them or reads from them                                  *)
(* (crates/signal-ha-recorder/src/sqlite.rs, curator.rs).                  *)
(*                                                                         *)
(* A table is a set of rows: the unique index over entity, timestamp and   *)
(* state makes those three a key.  SQL's NULL and Rust's None are the      *)
(* empty set and a value is the set of it alone, for columns and for       *)
(* optional arguments alike.  Where the code leaves the order of rows with *)
(* one timestamp to the database, it is some fixed order here.             *)
(***************************************************************************)
EXTENDS Naturals, SequencesExt, FiniteSetsExt

CONSTANTS
    Entities,       \* the entity ids
    DomainOf,       \* the part of an entity id before the dot
    AgeBounds       \* ages that separate the buckets, youngest first

ASSUME RowsAssumption ==
    /\ AgeBounds \in Seq(Nat)
    /\ \A i, j \in DOMAIN AgeBounds : i < j => AgeBounds[i] < AgeBounds[j]

Null == {}
Domains == {DomainOf[e] : e \in Entities}

\* The numbers that stand for the reasons in the table; any other number that a
\* table may hold is not a reason.
Reasons == 1..5
KnownReason(v) == v \in Reasons

Key(r) == <<r.entity, r.ts, r.state>>
Flagged(rows) == {r \in rows : r.reason # Null}
Unflagged(rows) == rows \ Flagged(rows)
ByTime(rows) ==
    CHOOSE seq \in [1..Cardinality(rows) -> rows] :
        \A i, j \in DOMAIN seq : i < j => seq[i] # seq[j] /\ seq[i].ts <= seq[j].ts
Newest(rows) == Reverse(ByTime(rows))
UpTo(n, seq) == SubSeq(seq, 1, IF Len(seq) < n THEN Len(seq) ELSE n)

-----------------------------------------------------------------------------
(* Recording and reading *)

\* Mutant: INSERT OR REPLACE, which makes a new row.
InsertReplaces(rows, e, ts, state) ==
    {r \in rows : Key(r) # <<e, ts, state>>}
        \union {[entity |-> e, ts |-> ts, state |-> state,
                 reason |-> Null, flaggedAt |-> Null]}

\* INSERT OR IGNORE: a row with this key stays as it is, its flag included.
Insert(rows, e, ts, state) ==
    IF \E r \in rows : Key(r) = <<e, ts, state>> THEN rows
    ELSE rows \union {[entity |-> e, ts |-> ts, state |-> state,
                       reason |-> Null, flaggedAt |-> Null]}

OfEntity(rows, e) == {r \in rows : r.entity = e}
OfDomain(rows, d) == {r \in rows : DomainOf[r.entity] = d}

Query(rows, e, from, to) ==
    ByTime({r \in OfEntity(rows, e) : r.ts \in from..to})

Latest(rows, e) == {r \in OfEntity(rows, e) : r = Newest(OfEntity(rows, e))[1]}

EntitiesIn(rows) == {r.entity : r \in rows}

\* count(): of one entity or of all.
Count(rows, entity) ==
    Cardinality({r \in rows : \A e \in entity : r.entity = e})

\* time_range(): the times of the first and the last row.
TimeRange(rows) ==
    IF rows = {} THEN [oldest |-> Null, newest |-> Null]
    ELSE [oldest |-> {Min({r.ts : r \in rows})}, newest |-> {Max({r.ts : r \in rows})}]

\* domain_stats(): what each domain holds; its share is rows / total.
DomainStats(rows) ==
    {[domain |-> d,
      rows |-> Cardinality(OfDomain(rows, d)),
      entities |-> Cardinality(EntitiesIn(OfDomain(rows, d))),
      total |-> Cardinality(rows)] : d \in {DomainOf[e] : e \in EntitiesIn(rows)}}

\* The summaries cover entities of two rows or more; the average interval is
\* span / gaps.
Summary(rows, e) ==
    LET ts == {r.ts : r \in OfEntity(rows, e)} IN
    [entity |-> e, rows |-> Cardinality(OfEntity(rows, e)),
     span |-> Max(ts) - Min(ts), gaps |-> Cardinality(OfEntity(rows, e)) - 1,
     states |-> Cardinality({r.state : r \in OfEntity(rows, e)})]

Summaries(rows, domain) ==
    {Summary(rows, e) : e \in {f \in EntitiesIn(rows) :
        Cardinality(OfEntity(rows, f)) >= 2 /\ \A d \in domain : DomainOf[f] = d}}

TopEntities(rows, n, domain) ==
    UpTo(n, SetToSortSeq(Summaries(rows, domain), LAMBDA s, t : s.rows > t.rows))

FastestEntities(rows, n, domain) ==
    UpTo(n, SetToSortSeq(Summaries(rows, domain),
                         LAMBDA s, t : s.span * t.gaps < t.span * s.gaps))

Ten == 10
EntityProfile(rows, e) ==
    LET own == OfEntity(rows, e)
        states == {r.state : r \in own}
        times(s) == Cardinality({r \in own : r.state = s})
    IN  [rows |-> Cardinality(own),
         states |-> Cardinality(states),
         range |-> TimeRange(own),
         histogram |-> UpTo(Ten, SetToSortSeq({<<s, times(s)>> : s \in states},
                                              LAMBDA p, q : p[2] > q[2])),
         recent |-> UpTo(Ten, Newest(own)),
         flagged |-> Cardinality(Flagged(own))]

\* Mutant: both bounds of a bucket belong to it.
AgeBucketClosed(i, now, ts) ==
    /\ i <= Len(AgeBounds) => ts + AgeBounds[i] >= now
    /\ i > 1 => ts + AgeBounds[i - 1] <= now

\* age_boundaries(): bucket i holds what is older than AgeBounds[i - 1] and not
\* older than AgeBounds[i]; the first also what lies in the future, the last all
\* that is older than the last bound.
AgeBucket(i, now, ts) ==
    /\ i <= Len(AgeBounds) => ts + AgeBounds[i] >= now
    /\ i > 1 => ts + AgeBounds[i - 1] < now

AgeDistribution(rows, now) ==
    [i \in 1..Len(AgeBounds) + 1 |-> Cardinality({r \in rows : AgeBucket(i, now, r.ts)})]

-----------------------------------------------------------------------------
(* Flags *)

\* The rows that a flag operation considers.
Eligible(rows, e, cutoff) ==
    {r \in Unflagged(OfEntity(rows, e)) : \A c \in cutoff : r.ts < c}

\* The rows that keep_every_n leaves out: none without it; with it, the first of
\* the eligible rows and every n-th after it, or all of them if n is 0, because
\* the remainder is NULL then and the row does not pass the condition.
Thinned(rows, keep) ==
    LET seq == ByTime(rows)
        spared(n) == {seq[i] : i \in {j \in DOMAIN seq : n = 0 \/ (j - 1) % n = 0}}
    IN  {r \in rows : \A n \in keep : r \notin spared(n)}

SetFlag(rows, hit, reason, now) ==
    (rows \ hit)
        \union {[r EXCEPT !.reason = {reason}, !.flaggedAt = {now}] : r \in hit}

FlagEntity(rows, e, reason, cutoff, keep, now) ==
    SetFlag(rows, Thinned(Eligible(rows, e, cutoff), keep), reason, now)

FlagDomain(rows, d, reason, cutoff, now) ==
    SetFlag(rows, {r \in Unflagged(OfDomain(rows, d)) : \A c \in cutoff : r.ts < c},
            reason, now)

\* Mutant: flagged_at is not reset.
UnflagKeepsTime(rows, entity, reason) ==
    LET hit == {r \in Flagged(rows) : /\ \A e \in entity : r.entity = e
                                      /\ \A v \in reason : r.reason = {v}}
    IN  (rows \ hit) \union {[r EXCEPT !.reason = Null] : r \in hit}

Unflag(rows, entity, reason) ==
    LET hit == {r \in Flagged(rows) : /\ \A e \in entity : r.entity = e
                                      /\ \A v \in reason : r.reason = {v}}
    IN  (rows \ hit)
            \union {[r EXCEPT !.reason = Null, !.flaggedAt = Null] : r \in hit}

FlaggedByReason(rows) ==
    [v \in {w \in UNION {r.reason : r \in rows} : KnownReason(w)} |->
        Cardinality({r \in rows : r.reason = {v}})]

FlaggedByDomain(rows) ==
    [d \in {DomainOf[r.entity] : r \in Flagged(rows)} |->
        Cardinality(OfDomain(Flagged(rows), d))]

\* sample_n(): n items at even distances.
Sample(seq, n) ==
    IF Len(seq) <= n THEN seq ELSE [i \in 1..n |-> seq[((i - 1) * Len(seq)) \div n + 1]]

Five == 5
\* Mutant: the number kept is rounded down.
FlagPreviewFloor(rows, e, cutoff, keep) ==
    LET total == Cardinality(Eligible(rows, e, cutoff))
        n == Max({1} \union keep)
    IN  [total |-> total, keep |-> total \div n, flag |-> total - (total \div n),
         sample |-> << >>]

\* flag_preview(): an absent n is taken as 1, and so is 0.
FlagPreview(rows, e, cutoff, keep) ==
    LET total == Cardinality(Eligible(rows, e, cutoff))
        n == Max({1} \union keep)
        spared == Eligible(rows, e, cutoff) \ Thinned(Eligible(rows, e, cutoff), {n})
    IN  [total |-> total,
         keep |-> (total + n - 1) \div n,
         flag |-> total - (total + n - 1) \div n,
         sample |-> IF n > 1 THEN Sample(ByTime(spared), Five) ELSE << >>]

\* Mutant: without the grace.
PruneFlaggedAll(rows, cutoff) == Unflagged(rows)

PruneFlagged(rows, cutoff) ==
    {r \in rows : ~(r.reason # Null /\ \A at \in r.flaggedAt : at < cutoff)}

\* prune(): by age alone, flagged or not.
Prune(rows, olderThan) == {r \in rows : ~(r.ts < olderThan)}

=============================================================================
