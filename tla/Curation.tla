------------------------------ MODULE Curation ------------------------------
(***************************************************************************)
(* The curator on its tables, while rows are recorded into the live table  *)
(* and it is rotated.                                                      *)
(***************************************************************************)
EXTENDS Curator

CONSTANTS
    MaxRows,        \* rows in a table that is written to (bound)
    MaxRotations    \* rotations that are begun (bound)

VARIABLES rotations     \* rotations begun so far (bound)

vars == <<storeVars, curatorVars, rotations>>

Init == StoreInit /\ CuratorInit /\ rotations = 0

\* A recorder with a row for what an entity showed now or before.
RecordAny ==
    /\ Cardinality(tables[Live]) < MaxRows
    /\ \E e \in Entities, ts \in 0..clock, s \in States : Record(e, ts, s)
    /\ UNCHANGED <<curatorVars, rotations>>

Work == (Curate \/ Reporting) /\ UNCHANGED rotations

BeginRotation(own) ==
    /\ rotations < MaxRotations
    /\ rotations' = rotations + 1
    /\ CreateNew(own)
    /\ UNCHANGED curatorVars

RotateOn ==
    /\ \/ (CheckPrior \/ RotationEnds) /\ UNCHANGED curatorVars
       \/ \E a \in Archives : RenameUnderReport(a)
    /\ UNCHANGED rotations

Other == (DropLeftover \/ Tick) /\ UNCHANGED <<curatorVars, rotations>>

Next ==
    \/ RecordAny
    \/ Work
    \/ \E own \in BOOLEAN : BeginRotation(own)
    \/ RotateOn
    \/ Other

Spec == Init /\ [][Next]_vars

-----------------------------------------------------------------------------
(* Properties *)

\* The tables have the names there are, their rows the columns of the schema, and
\* the two columns of a flag are written together.
TypeOK ==
    /\ Live \in DOMAIN tables
    /\ DOMAIN tables \subseteq {Live, Curating, New} \union Archives
    /\ \A t \in DOMAIN tables : \A r \in tables[t] :
          /\ r \in [entity : Entities, ts : 0..MaxClock, state : States,
                    reason : {Null} \union {{v} : v \in UsedReasons},
                    flaggedAt : {Null} \union {{c} : c \in 0..MaxClock}]
          /\ (r.reason = Null) = (r.flaggedAt = Null)
    /\ clock \in 0..MaxClock
    /\ rotation \in [at : {"idle", "created", "checked"}, prior : BOOLEAN, own : BOOLEAN]

\* The replacement for the live table is empty whenever it is there, so that a
\* failed rotation strands no row and the next one starts empty.
NewIsEmpty == New \in DOMAIN tables => tables[New] = {}

\* Of two reads of one table the numbers fit: what is recorded in between adds to
\* the second alone.  Only a rotation may change that under the curator.
ReportsAddUp ==
    (Finished /\ ~report.swapped) =>
        LET sum == FoldSeq(+, 0, report.got) IN
        CASE report.of \in {"db_overview", "retention_estimate", "entity_profile"} ->
                report.got[2] <= report.got[1]
          [] report.of = "flagged_summary" -> report.got[1] <= report.got[2]
          [] report.of = "domain_stats" ->
                report.got[1] <= report.got[2] /\ report.got[2] <= CountOn(report.table, {})
          [] report.of = "age_distribution" ->
                report.rows <= sum /\ sum <= CountOn(report.table, {})

\* The preview of a thinning tells what flagging with the same arguments does.
PreviewTellsWhatFlagDoes ==
    \A t \in DOMAIN tables, e \in Entities, age \in OlderThan, keep \in KeepEvery \ {{}} :
        LET preview == FlagPreviewStatements(t, e, Cutoff(age), keep)[1]
            after(v) == FlagEntity(tables[t], e, v, Cutoff(age), keep, clock)
        IN  \A v \in UsedReasons :
                /\ preview.flag = Cardinality(after(v) \ tables[t])
                /\ preview.keep = Cardinality(Eligible(after(v), e, Cutoff(age)))

\* Each aggregate over a table counts each row once.
EveryRowIsCounted ==
    \A t \in DOMAIN tables :
        /\ DomainSum(t) = CountOn(t, {})
        /\ FoldSeq(+, 0, AgeDistributionStatements(t, clock)) = CountOn(t, {})
        /\ Flags(t) = MapThenSumSet(LAMBDA d : FlaggedByDomainOn(t)[d],
                                    DOMAIN FlaggedByDomainOn(t))
        /\ \A e \in Entities :
              /\ Len(QueryOn(t, e, 0, MaxClock)) = CountOn(t, {e})
              /\ LatestOn(t, e) # {} <=> e \in EntitiesOn(t)
              /\ EntityProfileStatements(t, e)[1] = CountOn(t, {e})

\* A flag that is set stays as it is, with its reason and the time that its grace
\* runs from, until it is removed: neither a later flag, nor a report, nor a record
\* that comes again changes it.
FlagsStick ==
    [][\A t \in DOMAIN tables :
          DOMAIN tables' = DOMAIN tables =>
            \A r \in Flagged(tables[t]), s \in tables'[t] :
                (Key(r) = Key(s) /\ r # s) => \E u \in Curated : CurateUnflag(u)]_vars

\* A row is lost from all tables only if its flag is older than a grace or the row
\* itself is older than the age it is pruned at.
OnlyRipeRowsVanish ==
    [][\A t \in DOMAIN tables : \A r \in tables[t] :
          (\A u \in DOMAIN tables' : \A s \in tables'[u] : Key(s) # Key(r)) =>
             \/ \E h \in PruneHours : r.ts + h < clock
             \/ \E h \in GraceHours, at \in r.flaggedAt : at + h < clock]_vars

\* Every step is a step of the record store as the trait describes it.
ImplementsRecordStore == Store!Spec
=============================================================================
