----------------------------- MODULE Automation -----------------------------
(***************************************************************************)
(* An automation: it pushes its dashboard when it starts, then watches an  *)
(* appliance or awaits a time of the day, and tells its status page, or    *)
(* looks after lights that come and go.  The loop is that of the           *)
(* documentation (docs/getting-started.md).                                *)
(***************************************************************************)
EXTENDS PowerFsm, Scheduler, StatusPage, Dashboard, Reconciler

CONSTANTS
    MaxWait         \* ticks between two readings (bound)

ASSUME AutomationAssumption == MaxWait \in Nat \ {0}

VARIABLES
    task,           \* what the automation is about
    place,          \* where its loop is
    waited,         \* ticks since the last reading
    page            \* its status page

loopVars == <<task, place, waited, page>>
vars == <<powerVars, schedulerVars, dashboardVars, reconcilerVars, loopVars>>

Init ==
    /\ PowerInit /\ SchedulerInit /\ DashboardInit /\ ReconcilerInit
    /\ task = "none" /\ place = "start" /\ waited = 0
    /\ page = NewPage

Boot ==
    /\ place = "start"
    /\ \/ \E d \in Deployments : Ensure(d)
       \/ Manage
    /\ UNCHANGED <<powerVars, schedulerVars, reconcilerVars, loopVars>>

\* The loop shares nothing with the start: it is followed after a start without
\* faults, and the dashboards are not followed any more then (bounds).
EnterLoop ==
    /\ place = "start"
    /\ \A d \in Deployments : deploy[d] = "done"
    /\ left = [faults |-> MaxFaults, managed |-> MaxManaged]
    /\ place' = "idle"
    /\ \/ task' \in {"appliance", "lights"} /\ UNCHANGED schedulerVars
       \/ task' = "timer" /\ NewStream
    /\ UNCHANGED <<powerVars, dashboardVars, reconcilerVars, waited, page>>

-----------------------------------------------------------------------------
(* The appliance *)

Evaluate ==
    /\ task = "appliance" /\ place = "idle" /\ waited > 0
    /\ \E raw \in Readings : Update(raw, waited)
    /\ waited' = 0 /\ place' = "evaluated"
    /\ UNCHANGED <<schedulerVars, dashboardVars, reconcilerVars, task, page>>

Tell(here, there, told) ==
    /\ place = here /\ place' = there
    /\ page' = told
    /\ UNCHANGED <<powerVars, schedulerVars, dashboardVars, reconcilerVars, task, waited>>

PowerStates == << "off", "pending_on", "running", "pending_off" >>

TellState == Tell("evaluated", "state told",
    Put(page, "Appliance", "State", Pills(fsm.state, PowerStates)))
TellPower == Tell("state told", "power told",
    SetMany(page, "Appliance", [Power |-> Text(watts), Peak |-> Text(fsm.peak)]))
TellEvaluated == Tell("power told", "idle", Evaluated(page))

Wait ==
    /\ task = "appliance" /\ place # "start" /\ waited < MaxWait
    /\ waited' = waited + 1
    /\ UNCHANGED <<powerVars, schedulerVars, dashboardVars, reconcilerVars, task, place, page>>

-----------------------------------------------------------------------------
(* The time of the day *)

AwaitTime ==
    /\ task = "timer" /\ place = "idle"
    /\ Arm
    /\ page' = IF stream'.at = "armed"
               THEN Put(page, "Timer", "Next", Countdown(stream'.wait, Day)) ELSE page
    /\ UNCHANGED <<powerVars, dashboardVars, reconcilerVars, task, place, waited>>

TimeHasCome ==
    /\ task = "timer" /\ place = "idle"
    /\ Fire
    /\ page' = Evaluated(SetMany(page, "Timer", [Next |-> Cleared, Sun |-> Bool(IsSunUp)]))
    /\ UNCHANGED <<powerVars, dashboardVars, reconcilerVars, task, place, waited>>

StartAnew ==
    /\ task = "timer" /\ place = "idle"
    /\ Revive
    /\ page' = NewPage
    /\ UNCHANGED <<powerVars, dashboardVars, reconcilerVars, task, place, waited>>

PassTime ==
    /\ task = "timer" /\ place = "idle"
    /\ Clock
    /\ UNCHANGED <<powerVars, dashboardVars, reconcilerVars, loopVars>>

-----------------------------------------------------------------------------
(* Lights that come and go *)

LookAfterLights(step) ==
    /\ task = "lights" /\ place = "idle"
    /\ step
    /\ UNCHANGED <<powerVars, schedulerVars, dashboardVars, loopVars>>

-----------------------------------------------------------------------------
Telling == TellState \/ TellPower \/ TellEvaluated
Next ==
    \/ Boot \/ EnterLoop
    \/ Evaluate \/ Telling \/ Wait
    \/ AwaitTime \/ TimeHasCome \/ StartAnew \/ PassTime
    \/ LookAfterLights(ReconcilerNext)

\* systemd starts a process again that failed, requests are answered within their
\* timeout, and the loop comes round.  Events are delivered, and a timer fires unless
\* it is cancelled; one that is replaced over and over need not fire.
Fairness ==
    /\ \A d \in Deployments : WF_vars(Boot /\ Ensure(d))
    /\ WF_vars(EnterLoop)
    /\ WF_vars(Evaluate) /\ WF_vars(Telling) /\ WF_vars(Wait)
    /\ WF_vars(AwaitTime) /\ WF_vars(TimeHasCome)
    /\ WF_vars(StartAnew) /\ WF_vars(PassTime)
    /\ \A e \in Entities : WF_vars(LookAfterLights(OnEntityChange(e)))
    /\ \A h \in Handles :
          WF_vars(LookAfterLights(\E t \in timers : t.handle = h /\ OnTimerFired(t)))

Spec == Init /\ [][Next]_vars /\ Fairness

-----------------------------------------------------------------------------
(* Properties *)

\* The machine and the stream have their types, and a page lists each of its
\* sections once.
TypeOK ==
    /\ fsm \in [state : {PowerStates[i] : i \in 1..4}, on : Nat, off : Nat, peak : Nat,
                smoothed : Nat]
    /\ event \in {"none", "started", "finished"}
    /\ hour \in 0..Day - 1
    /\ stream.at \in {"none", "new", "armed", "fired", "dead"}
    /\ stream.wait \in -Late..2 * Day
    /\ \A d \in Deployments : deploy[d] \in {"start", "create", "save", "done", "failed"}
    /\ {page.order[i] : i \in DOMAIN page.order} = DOMAIN page.sections
    /\ \A i, j \in DOMAIN page.order : page.order[i] = page.order[j] => i = j

\* A start is announced only when two readings in a row or more, for the time of the
\* debouncing, were above the threshold, and an end only when the average was below
\* the other one for that time, however often the readings wavered before.
CyclesAreDebounced ==
    /\ event = "started" => streak.above >= DebounceOn /\ streak.aboves >= 2
    /\ event = "finished" => streak.idle >= DebounceOff /\ streak.idles >= 2

\* The peak of a cycle is the highest average since its start was confirmed, also
\* across the times that it nearly ended; only an average that never came up to the
\* idle threshold may be missed.
PeakIsTheHighest ==
    (fsm.state \in {"running", "pending_off"} /\ streak.high >= IdleBelow * Unit)
        => fsm.peak = streak.high

\* An appliance that does not draw power any more is found off, whatever it did
\* before.
EndsAreNoticed == <>[](task = "appliance" /\ watts = 0) => <>[](fsm.state = "off")

\* The next target is a day after the one before, unless the time did not exist once on
\* the day between, and it is never overdue by more than the automation is behind.
FiresDaily ==
    /\ \A n \in fires.gap : n = Day \/ (stream.kind = "daily" /\ fires.excused /\ n = 2 * Day)
    /\ \A n \in fires.since :
          fires.odd \/ n <= Day + Late

\* A stream whose offset is not negative fires once for every day on which its time
\* exists once, however late the automation is and on whatever days (next_sunrise,
\* next_sunset, daily).
OncePerDay == stream.offset >= 0 => FiresDaily

\* What the documentation says of every offset.  It is not so: a target before the event
\* of the sun is in the past when it has fired, as long as the event is to come.
OncePerDayAtAnyOffset == FiresDaily

\* What a request is answered between two evaluations is what the last one found,
\* with all that was told before.
PageTellsLastEvaluation ==
    (place = "idle" /\ page.evals > 0) =>
        LET shown == Answer(page, FALSE).sections[1]
            told == Answer(page, TRUE).sections[1]
        IN  IF task = "appliance"
            THEN /\ \A i \in DOMAIN PowerStates :
                        shown["State"][i] <=> PowerStates[i] = fsm.state
                 /\ told["Power"].text = watts /\ told["Peak"].text = fsm.peak
            ELSE /\ stream.at = "armed" =>
                        told["Next"].remaining >= stream.wait /\ shown["Next"] \in 0..100
                 /\ stream.at = "fired" => told["Next"] = Cleared
                 /\ "Sun" \in DOMAIN told

\* Processes that push the same dashboard at the same time, fail and are started anew
\* come through, and the dashboard then has the config of one of them unless others
\* meddled with it.
DeploymentsSucceed ==
    <>(/\ \A d \in Deployments : deploy[d] = "done"
       /\ left.managed = MaxManaged =>
            GetConfig(Path) # {} /\ GetConfig(Path) \subseteq Deployments)
=============================================================================
