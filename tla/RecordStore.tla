---------------------------- MODULE RecordStore ----------------------------
(***************************************************************************)
(* What a record store promises (crates/signal-ha-recorder/src/            *)
(* store_trait.rs) to the recorder that writes to it and to the curator    *)
(* that flags and prunes rows (curator.rs): a live table, a curating slot  *)
(* that takes a snapshot of it, and archives.  Every method is one step,   *)
(* the rotation included.                                                  *)
(*                                                                         *)
(* What a method makes of the rows of its table is a parameter, which      *)
(* RecordRows gives.                                                       *)
(***************************************************************************)
EXTENDS Integers

CONSTANTS
    Insert(_, _, _, _), FlagEntity(_, _, _, _, _, _), FlagDomain(_, _, _, _, _),
    Unflag(_, _, _), PruneFlagged(_, _), Prune(_, _),
    Entities,       \* the entity ids
    Domains,        \* their domains
    Live, Curating, \* names of tables
    Archives,       \* names that a rotation may archive under
    Curated,        \* the tables that a curator has opened a store on
    States,         \* states of entities
    UsedReasons,    \* the reasons that rows are flagged for
    OlderThan,      \* older_than_hours of the flag operations, none or some
    KeepEvery,      \* keep_every_n, none or some
    GraceHours,     \* grace_hours of the pruning of flagged rows
    PruneHours,     \* ages that rows are pruned at
    MaxClock        \* hours that are looked at (bound)

VARIABLES
    tables,         \* the rows of each table there is
    clock           \* Utc::now(), in hours

Init ==
    /\ tables = [t \in {Live} |-> {}]
    /\ clock = 0

Becomes(t, rows) ==
    /\ tables' = [tables EXCEPT ![t] = rows]
    /\ UNCHANGED clock

\* A row for what an entity showed at this or an earlier hour.
Record(e, ts, state) == Becomes(Live, Insert(tables[Live], e, ts, state))

\* The age given in hours as a point of time.
Cutoff(age) == {clock - h : h \in age}

\* curator.rs: what a curator does to the rows of its table.
CurateEntity(t, e) ==
    \E v \in UsedReasons, age \in OlderThan, keep \in KeepEvery :
        Becomes(t, FlagEntity(tables[t], e, v, Cutoff(age), keep, clock))

CurateDomain(t, d) ==
    \E v \in UsedReasons, age \in OlderThan :
        Becomes(t, FlagDomain(tables[t], d, v, Cutoff(age), clock))

CurateUnflag(t) ==
    \E entity \in {{}} \union {{e} : e \in Entities},
       reason \in {{}} \union {{v} : v \in UsedReasons} :
        Becomes(t, Unflag(tables[t], entity, reason))

CuratePrune(t) ==
    \/ \E h \in GraceHours : Becomes(t, PruneFlagged(tables[t], clock - h))
    \/ \E h \in PruneHours : Becomes(t, Prune(tables[t], clock - h))

Curate(t) ==
    /\ t \in DOMAIN tables
    /\ \/ \E e \in Entities : CurateEntity(t, e)
       \/ \E d \in Domains : CurateDomain(t, d)
       \/ CurateUnflag(t)
       \/ CuratePrune(t)

\* The curating slot is archived if it is taken, the live table takes its place
\* and an empty one that of the live table.
RotateForCuration(archive) ==
    LET kept == IF Curating \in DOMAIN tables THEN {archive} ELSE {} IN
    /\ kept \intersect DOMAIN tables = {}
    /\ tables' = [t \in DOMAIN tables \union {Curating} \union kept |->
                    IF t = Live THEN {}
                    ELSE IF t = Curating THEN tables[Live]
                    ELSE IF t \in kept THEN tables[Curating]
                    ELSE tables[t]]
    /\ UNCHANGED clock

\* Opening a store on a database without the table creates it.
Open(t) ==
    /\ t \notin DOMAIN tables
    /\ tables' = [u \in DOMAIN tables \union {t} |-> IF u = t THEN {} ELSE tables[u]]
    /\ UNCHANGED clock

Tick ==
    /\ clock < MaxClock
    /\ clock' = clock + 1
    /\ UNCHANGED tables

Next ==
    \/ \E e \in Entities, ts \in 0..clock, s \in States : Record(e, ts, s)
    \/ \E t \in Curated : Curate(t) \/ Open(t)
    \/ \E a \in Archives : RotateForCuration(a)
    \/ Tick

Spec == Init /\ [][Next]_<<tables, clock>>
=============================================================================
