------------------------------ MODULE Curator ------------------------------
(***************************************************************************)
(* The curator's tools (crates/signal-ha-recorder/src/curator.rs) on       *)
(* stores of a MySQL server.  A tool that changes rows is one statement of *)
(* the store.  The reports are read with several statements, between which *)
(* the recorder writes and a rotation may put another table under the same *)
(* name.  The curator runs one tool at a time.                             *)
(*                                                                         *)
(* Of a report only the numbers are kept that it relates to each other.    *)
(***************************************************************************)
EXTENDS MysqlStore

CONSTANTS
    Reports,        \* the reports that are read
    MaxReports      \* reports that are looked at (bound)

ASSUME CuratorAssumption ==
    Reports \subseteq {"db_overview", "flagged_summary", "retention_estimate",
                       "domain_stats", "entity_profile", "age_distribution"}

VARIABLES
    report,         \* what has been read of the current report
    reports         \* the reports so far (bound)

curatorVars == <<report, reports>>

NoReport == [of |-> "none"]

CuratorInit == report = NoReport /\ reports = 0

-----------------------------------------------------------------------------
(* Flags *)

Free(t) == report = NoReport /\ t \in Curated

CurateEntity(t, e) ==
    \E v \in UsedReasons, age \in OlderThan, keep \in KeepEvery :
        Free(t) /\ FlagEntityRows(t, e, v, Cutoff(age), keep)

CurateDomain(t, d) ==
    \E v \in UsedReasons, age \in OlderThan :
        Free(t) /\ FlagDomainRows(t, d, v, Cutoff(age))

CurateUnflag(t) ==
    \E entity \in {{}} \union {{e} : e \in Entities},
       reason \in {{}} \union {{v} : v \in UsedReasons} :
        Free(t) /\ UnflagRows(t, entity, reason)

CuratePruneFlagged(t) ==
    \E h \in GraceHours : Free(t) /\ PruneFlaggedRows(t, clock - h)

CuratePrune(t) == \E h \in PruneHours : Free(t) /\ PruneRows(t, clock - h)

OpenStore(t) == Free(t) /\ Open(t)

Curate ==
    /\ \E t \in Curated :
          \/ \E e \in Entities : CurateEntity(t, e)
          \/ \E d \in Domains : CurateDomain(t, d)
          \/ CurateUnflag(t)
          \/ CuratePruneFlagged(t)
          \/ CuratePrune(t)
          \/ OpenStore(t)
    /\ UNCHANGED curatorVars

-----------------------------------------------------------------------------
(* Reports *)

Flags(t) == LET by == FlaggedByReasonOn(t) IN MapThenSumSet(LAMBDA v : by[v], DOMAIN by)
DomainSum(t) == MapThenSumSet(LAMBDA s : s.rows, DomainStats(tables[t]))

DbOverview(t) == << CountOn(t, {}), Flags(t) >>
FlaggedSummary(t) == << Flags(t), CountOn(t, {}) >>
RetentionEstimate(t) == << CountOn(t, {}), Flags(t) >>

\* What the statements of a report find, in the order they are made in.
Findings(of, t, entity, now) ==
    CASE of = "db_overview" -> DbOverview(t)
      [] of = "flagged_summary" -> FlaggedSummary(t)
      [] of = "retention_estimate" -> RetentionEstimate(t)
      [] of = "domain_stats" -> << CountOn(t, {}), DomainSum(t) >>
      [] of = "entity_profile" ->
            LET e == CHOOSE f \in entity : TRUE
            IN  << EntityProfileStatements(t, e)[1], EntityProfileStatements(t, e)[6] >>
      [] of = "age_distribution" -> AgeDistributionStatements(t, now)

Size(of) == IF of = "age_distribution" THEN Len(AgeBounds) + 1 ELSE 2

\* The time is taken once, before the first statement.
Ask(of, t, entity) ==
    /\ Free(t) /\ t \in DOMAIN tables
    /\ reports < MaxReports
    /\ reports' = reports + 1
    /\ report' = [of |-> of, table |-> t, entity |-> entity, now |-> clock,
                  rows |-> CountOn(t, {}), swapped |-> FALSE,
                  got |-> << Findings(of, t, entity, clock)[1] >>]
    /\ UNCHANGED storeVars

\* Mutant: the time is taken anew for every statement.
ReadOnNow ==
    /\ report # NoReport
    /\ Len(report.got) < Size(report.of)
    /\ report' = [report EXCEPT !.got = Append(@,
            Findings(report.of, report.table, report.entity, clock)[Len(@) + 1])]
    /\ UNCHANGED <<storeVars, reports>>

ReadOn ==
    /\ report # NoReport
    /\ Len(report.got) < Size(report.of)
    /\ report' = [report EXCEPT !.got = Append(@,
            Findings(report.of, report.table, report.entity, report.now)[Len(@) + 1])]
    /\ UNCHANGED <<storeVars, reports>>

Finished == report # NoReport /\ Len(report.got) = Size(report.of)

Return ==
    /\ Finished
    /\ report' = NoReport
    /\ UNCHANGED <<storeVars, reports>>

\* A rename under a report is noted in it.
RenameUnderReport(archive) ==
    /\ Rename(archive)
    /\ report' = IF report = NoReport THEN NoReport ELSE [report EXCEPT !.swapped = TRUE]
    /\ UNCHANGED reports

Reporting ==
    \/ \E of \in Reports \ {"entity_profile"}, t \in Curated : Ask(of, t, {})
    \/ \E of \in Reports \intersect {"entity_profile"}, t \in Curated, e \in Entities :
          Ask(of, t, {e})
    \/ ReadOn
    \/ Return
=============================================================================
