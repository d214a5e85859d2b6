----------------------------- MODULE MysqlStore -----------------------------
(***************************************************************************)
(* The record store on a MySQL server                                      *)
(* (crates/signal-ha-recorder/src/mysql_store.rs): the tables of the       *)
(* server, the recorder's store on the live table, and stores of a curator *)
(* on the tables in Curated.                                               *)
(*                                                                         *)
(* Every statement is atomic at the server.  A method that changes rows is *)
(* one statement that changes them, under the write lock of its store;     *)
(* what the rotation does between its statements is seen by everybody      *)
(* else, and an error or a crash may strike at each of them.  The states   *)
(* are told apart by the collation, in the unique key too.                 *)
(***************************************************************************)
EXTENDS RecordRows, Integers

CONSTANTS
    Live, Curating, Archives, Curated, States, UsedReasons,
    OlderThan, KeepEvery, GraceHours, PruneHours, MaxClock,
    New             \* state_log_new, the replacement of the live table

ASSUME StoreAssumption ==
    /\ Live # Curating /\ Live \notin Archives /\ Curating \notin Archives
    /\ Curated \subseteq {Live, Curating}
    /\ UsedReasons \subseteq Reasons
    /\ MaxClock \in Nat
    /\ \A keep \in KeepEvery : keep \subseteq Nat /\ \A m, n \in keep : m = n
    /\ \A age \in OlderThan : age \subseteq Nat
    /\ GraceHours \subseteq Nat /\ PruneHours \subseteq Nat
    /\ New \notin {Live, Curating} \union Archives

VARIABLES
    tables,         \* the rows of each table there is
    clock,          \* Utc::now(), in hours
    rotation        \* how far rotate_for_curation() is

storeVars == <<tables, clock, rotation>>

\* The tables as the recorder and the curator know them.
Visible == [t \in DOMAIN tables \ {New} |-> tables[t]]

Store == INSTANCE RecordStore WITH tables <- Visible

\* own: rotate_for_curation() was called on the store that the recorder writes with
NoRotation == [at |-> "idle", prior |-> FALSE, own |-> FALSE]

StoreInit ==
    /\ tables = [t \in {Live} |-> {}]
    /\ clock = 0
    /\ rotation = NoRotation

-----------------------------------------------------------------------------
(* Methods that change rows *)

Write(t, rows) ==
    /\ t \in DOMAIN tables
    /\ tables' = [tables EXCEPT ![t] = rows]
    /\ UNCHANGED <<clock, rotation>>

\* The lock is one of the store, not of the table: a rotation holds up the writes
\* made with its own store alone.
Unlocked == rotation.at # "idle" => ~rotation.own

\* INSERT IGNORE.
Record(e, ts, state) == Unlocked /\ Write(Live, Insert(tables[Live], e, ts, state))

Cutoff(age) == {clock - h : h \in age}

FlagEntityRows(t, e, v, cutoff, keep) ==
    Write(t, FlagEntity(tables[t], e, v, cutoff, keep, clock))

FlagDomainRows(t, d, v, cutoff) ==
    Write(t, FlagDomain(tables[t], d, v, cutoff, clock))

UnflagRows(t, entity, reason) == Write(t, Unflag(tables[t], entity, reason))

PruneFlaggedRows(t, cutoff) == Write(t, PruneFlagged(tables[t], cutoff))

PruneRows(t, olderThan) == Write(t, Prune(tables[t], olderThan))

\* open() and migrate(): CREATE TABLE IF NOT EXISTS.
Open(t) ==
    /\ t \notin DOMAIN tables
    /\ tables' = [u \in DOMAIN tables \union {t} |-> IF u = t THEN {} ELSE tables[u]]
    /\ UNCHANGED <<clock, rotation>>

-----------------------------------------------------------------------------
(* Methods that read, a statement each *)

QueryOn(t, e, from, to) == Query(tables[t], e, from, to)
LatestOn(t, e) == Latest(tables[t], e)
EntitiesOn(t) == EntitiesIn(tables[t])
CountOn(t, entity) == Count(tables[t], entity)
TimeRangeOn(t) == TimeRange(tables[t])
TopEntitiesOn(t, n, domain) == TopEntities(tables[t], n, domain)
FastestEntitiesOn(t, n, domain) == FastestEntities(tables[t], n, domain)
FlaggedByReasonOn(t) == FlaggedByReason(tables[t])
FlaggedByDomainOn(t) == FlaggedByDomain(tables[t])

(* Methods that read with several statements: what each of them finds *)

DomainStatsStatements(t) == << CountOn(t, {}), DomainStats(tables[t]) >>

EntityProfileStatements(t, e) ==
    LET profile == EntityProfile(tables[t], e) IN
    << profile.rows, profile.states, profile.range, profile.histogram,
       profile.recent, profile.flagged >>

AgeDistributionStatements(t, now) == AgeDistribution(tables[t], now)

FlagPreviewStatements(t, e, cutoff, keep) ==
    LET preview == FlagPreview(tables[t], e, cutoff, keep) IN
    << [total |-> preview.total, keep |-> preview.keep, flag |-> preview.flag],
       preview.sample >>

-----------------------------------------------------------------------------
(* rotate_for_curation() *)

\* CREATE TABLE state_log_new LIKE state_log, which fails and ends the rotation
\* if the table is there.
CreateNew(own) ==
    /\ rotation.at = "idle"
    /\ New \notin DOMAIN tables
    /\ tables' = [t \in DOMAIN tables \union {New} |-> IF t = New THEN {} ELSE tables[t]]
    /\ rotation' = [NoRotation EXCEPT !.at = "created", !.own = own]
    /\ UNCHANGED clock

\* Is there a snapshot in the curating slot?
CheckPrior ==
    /\ rotation.at = "created"
    /\ rotation' = [rotation EXCEPT !.at = "checked", !.prior = Curating \in DOMAIN tables]
    /\ UNCHANGED <<tables, clock>>

\* Mutant: the prior snapshot is written over.
RenameOver(archive) ==
    /\ rotation.at = "checked"
    /\ New \in DOMAIN tables
    /\ tables' = [t \in (DOMAIN tables \ {New}) \union {Curating} |->
                    IF t = Live THEN tables[New]
                    ELSE IF t = Curating THEN tables[Live] ELSE tables[t]]
    /\ rotation' = NoRotation
    /\ UNCHANGED clock

\* RENAME TABLE with all its renames in one statement.  It fails as a whole if a
\* name is taken when its turn comes.
Rename(archive) ==
    LET kept == IF rotation.prior THEN {archive} ELSE {} IN
    /\ rotation.at = "checked"
    /\ New \in DOMAIN tables
    /\ Curating \in DOMAIN tables => rotation.prior
    /\ kept \intersect DOMAIN tables = {}
    /\ tables' = [t \in (DOMAIN tables \ {New}) \union {Curating} \union kept |->
                    IF t = Live THEN tables[New]
                    ELSE IF t = Curating THEN tables[Live]
                    ELSE IF t \in kept THEN tables[Curating]
                    ELSE tables[t]]
    /\ rotation' = NoRotation
    /\ UNCHANGED clock

\* Mutant: a rename that fails does not give back the lock.
RotationEndsUnlessChecked ==
    /\ rotation.at = "created"
    /\ rotation' = NoRotation
    /\ UNCHANGED <<tables, clock>>

\* A statement fails, or the process is gone: the lock is free and what is done
\* is done.
RotationEnds ==
    /\ rotation.at # "idle"
    /\ rotation' = NoRotation
    /\ UNCHANGED <<tables, clock>>

\* By hand, DROP TABLE state_log_new.
DropLeftover ==
    /\ rotation.at = "idle"
    /\ New \in DOMAIN tables
    /\ tables' = Visible
    /\ UNCHANGED <<clock, rotation>>

Tick ==
    /\ clock < MaxClock
    /\ clock' = clock + 1
    /\ UNCHANGED <<tables, rotation>>
=============================================================================
