----------------------------- MODULE Dashboard -----------------------------
(***************************************************************************)
(* The dashboards that automations push to Home Assistant when they start  *)
(* (crates/signal-ha/src/dashboard.rs), while other processes use the      *)
(* manager on them.  A request may be refused, fail on its way, or be      *)
(* carried out with its answer lost.  The validation of card types, which  *)
(* only warns, is left out.                                                *)
(***************************************************************************)
EXTENDS Integers

CONSTANTS
    Deployments,    \* processes of the automation, an older and a newer one say
    Path,           \* url_path of their dashboard
    Others,         \* url_paths of other dashboards
    Title,          \* its title
    Generated,      \* what a dashboard without a config shows
    MaxFaults,      \* requests that fail (bound)
    MaxManaged      \* requests of other processes (bound)

ASSUME DashboardAssumption ==
    /\ Path \notin Others
    /\ Generated \notin Deployments
    /\ MaxFaults \in Nat /\ MaxManaged \in Nat

VARIABLES
    boards,         \* the dashboards of Home Assistant, by url_path
    deploy,         \* how far the start of each process is
    left            \* faults and managing requests that are left (bounds)

dashboardVars == <<boards, deploy, left>>

\* The config of a spec is told apart by the deployment it comes with.
NewBoard == [title |-> Title, config |-> Generated]

DashboardInit ==
    /\ boards \in {[p \in Others |-> NewBoard], [p \in Others \union {Path} |-> NewBoard]}
    /\ deploy = [d \in Deployments |-> "start"]
    /\ left = [faults |-> MaxFaults, managed |-> MaxManaged]

-----------------------------------------------------------------------------
(* Requests *)

With(path, board) == [p \in DOMAIN boards \union {path} |-> IF p = path THEN board ELSE boards[p]]
Without(path) == [p \in DOMAIN boards \ {path} |-> boards[p]]

\* A request of a deployment that would make the dashboards what after says: it is
\* carried out, carried out with its answer lost, or it fails.
Request(d, after, next) ==
    \/ /\ boards' = after
       /\ deploy' = [deploy EXCEPT ![d] = next]
       /\ UNCHANGED left
    \/ /\ left.faults > 0
       /\ left' = [left EXCEPT !.faults = @ - 1]
       /\ boards' \in {after, boards}
       /\ deploy' = [deploy EXCEPT ![d] = "failed"]

\* Home Assistant refuses it: check_success().
Refuse(d) ==
    /\ deploy' = [deploy EXCEPT ![d] = "failed"]
    /\ UNCHANGED <<boards, left>>

\* Mutant: the dashboard is created whatever the list says.
ListUnread(d) ==
    /\ deploy[d] = "start"
    /\ Request(d, boards, "create")

\* list_dashboards(): an answer that tells of an error has no result and counts as
\* an empty list.
List(d) ==
    /\ deploy[d] = "start"
    /\ \/ Request(d, boards, IF Path \in DOMAIN boards THEN "save" ELSE "create")
       \/ /\ left.faults > 0
          /\ left' = [left EXCEPT !.faults = @ - 1]
          /\ deploy' = [deploy EXCEPT ![d] = "create"]
          /\ UNCHANGED boards

\* create_dashboard(), which is refused if the dashboard is there.
Create(d) ==
    /\ deploy[d] = "create"
    /\ IF Path \in DOMAIN boards THEN Refuse(d) ELSE Request(d, With(Path, NewBoard), "save")

\* save_config(), which is refused if the dashboard is not there.
Save(d) ==
    /\ deploy[d] = "save"
    /\ IF Path \in DOMAIN boards
       THEN Request(d, With(Path, [boards[Path] EXCEPT !.config = d]), "done")
       ELSE Refuse(d)

\* The process ends on an error and is started anew.
Restart(d) ==
    /\ deploy[d] = "failed"
    /\ deploy' = [deploy EXCEPT ![d] = "start"]
    /\ UNCHANGED <<boards, left>>

Ensure(d) == List(d) \/ Create(d) \/ Save(d) \/ Restart(d)

-----------------------------------------------------------------------------
(* The manager in the hands of others *)

UpdateDashboard(path, title) ==
    /\ path \in DOMAIN boards
    /\ boards' = [boards EXCEPT ![path].title = title]

DeleteDashboard(path) ==
    /\ path \in DOMAIN boards
    /\ boards' = Without(path)

GetConfig(path) == IF path \in DOMAIN boards THEN {boards[path].config} ELSE {}

DeleteConfig(path) ==
    /\ path \in DOMAIN boards
    /\ boards' = [boards EXCEPT ![path].config = Generated]

Manage ==
    /\ left.managed > 0
    /\ left' = [left EXCEPT !.managed = @ - 1]
    /\ \E path \in Others \union {Path} :
          UpdateDashboard(path, Generated) \/ DeleteDashboard(path) \/ DeleteConfig(path)
    /\ UNCHANGED deploy
=============================================================================
