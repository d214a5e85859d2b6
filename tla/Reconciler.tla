----------------------------- MODULE Reconciler -----------------------------
(***************************************************************************)
(* The availability watcher of the lighting crate                          *)
(* (crates/signal-ha-lighting/src/reconcile.rs).  When a watched light     *)
(* becomes available again, a settle timer is set; when the timer fires    *)
(* and the light is available, the automation is told to reapply the       *)
(* light's intended state, otherwise a retry is scheduled, up to a limit.  *)
(*                                                                         *)
(* The reconciler is plain data behind one &mut: its operations do not     *)
(* interleave with each other, but the lights, the change events on their  *)
(* way and the scheduler's timers go on between them.  A change event is   *)
(* handled some time after the change, so that a timer that fires may find *)
(* another state than the one the last event announced.                    *)
(*                                                                         *)
(* Handles are drawn from a finite set: one that neither the scheduler nor *)
(* the reconciler holds is as good as a new one.                           *)
(***************************************************************************)
EXTENDS Naturals, Sequences, FiniteSets

CONSTANTS
    Entities,       \* controlled_entities
    All,            \* the entity of the reconcile-all timer ("" in the code)
    MaxRetries,     \* config.max_retries
    Enabled,        \* config.enabled
    Handles,        \* timer handles
    None,           \* no handle
    NewsBound       \* change events on their way, per entity (bound)

ASSUME ReconcilerAssumption ==
    /\ All \notin Entities
    /\ MaxRetries \in Nat
    /\ Enabled \in BOOLEAN
    /\ None \notin Handles
    /\ NewsBound \in Nat
    /\ IsFiniteSet(Entities)
    /\ IsFiniteSet(Handles) => Cardinality(Handles) > Cardinality(Entities) + 1

VARIABLES
    available,      \* what Home Assistant holds of each entity
    news,           \* availability changes not yet handled, oldest first
    timers,         \* the scheduler's timers: [handle, entity]
    perEntity,      \* per_entity_handles
    allHandle,      \* all_handle
    retries,        \* retries, 0 where the map has no entry
    owed            \* history: recovered, and not reported ready since

ownVars == <<perEntity, allHandle, retries>>
reconcilerVars == <<available, news, timers, ownVars, owed>>

ReconcilerTypeOK ==
    /\ available \in [Entities -> BOOLEAN]
    /\ news \in [Entities -> Seq(BOOLEAN)]
    /\ timers \subseteq [handle : Handles, entity : Entities \union {All}]
    /\ perEntity \in [Entities -> Handles \union {None}]
    /\ allHandle \in Handles \union {None}
    /\ retries \in [Entities -> 0..MaxRetries]
    /\ owed \in [Entities -> BOOLEAN]

\* Every entity is available at first: one that is not is as after a change that was
\* handled.
ReconcilerInit ==
    /\ available = [e \in Entities |-> TRUE]
    /\ news = [e \in Entities |-> << >>]
    /\ timers = {}
    /\ perEntity = [e \in Entities |-> None]
    /\ allHandle = None
    /\ retries = [e \in Entities |-> 0]
    /\ owed = [e \in Entities |-> FALSE]

-----------------------------------------------------------------------------
InUse == {t.handle : t \in timers} \union {perEntity[e] : e \in Entities} \union {allHandle}
Fresh == Handles \ InUse
Timer(h, e) == [handle |-> h, entity |-> e]

\* Cancelling a handle the scheduler does not know does nothing.
Cancel(set, h) == {t \in set : t.handle # h}

\* Mutation: one attempt too many.
SetTimerOneMore(e, left, held, count) ==
    IF Enabled /\ count <= MaxRetries
    THEN \E h \in Fresh :
            /\ timers' = Cancel(left, held) \union {Timer(h, e)}
            /\ perEntity' = [perEntity EXCEPT ![e] = h]
    ELSE timers' = left /\ perEntity' = [perEntity EXCEPT ![e] = held]

\* Mutation: the new timer is stored first, so that it is the one cancelled.
SetTimerCancelsNew(e, left, held, count) ==
    IF Enabled /\ count < MaxRetries
    THEN timers' = left /\ perEntity' = [perEntity EXCEPT ![e] = None]
    ELSE timers' = left /\ perEntity' = [perEntity EXCEPT ![e] = held]

\* schedule() after `count` failed attempts, when the scheduler holds `left` and
\* the entity's handle is `held`: one timer replaces another, unless the retries
\* are used up.
SetTimer(e, left, held, count) ==
    IF Enabled /\ count < MaxRetries
    THEN \E h \in Fresh :
            /\ timers' = Cancel(left, held) \union {Timer(h, e)}
            /\ perEntity' = [perEntity EXCEPT ![e] = h]
    ELSE timers' = left /\ perEntity' = [perEntity EXCEPT ![e] = held]

\* The automation asks for a reconciliation itself, as after a power-on event.
Schedule(e) ==
    /\ SetTimer(e, timers, perEntity[e], retries[e])
    /\ UNCHANGED <<available, news, allHandle, retries, owed>>

\* The oldest change event of an entity is handled; only a recovery counts.
OnEntityChange(e) ==
    /\ news[e] # << >>
    /\ news' = [news EXCEPT ![e] = Tail(@)]
    /\ IF Head(news[e]) THEN SetTimer(e, timers, perEntity[e], retries[e])
                        ELSE UNCHANGED <<timers, perEntity>>
    /\ UNCHANGED <<available, allHandle, retries, owed>>

\* A settle timer fires.  While the entity is unavailable this is a failed
\* attempt, and the next one is scheduled if any is left.
OnTimerFired(t) ==
    LET e == t.entity IN
    /\ t \in timers
    /\ e # All
    /\ \/ /\ available[e]
          /\ retries' = [retries EXCEPT ![e] = 0]
          /\ owed' = [owed EXCEPT ![e] = FALSE]
          /\ timers' = timers \ {t}
          /\ perEntity' = [perEntity EXCEPT ![e] = None]
       \/ /\ ~available[e]
          /\ retries' = [retries EXCEPT ![e] = @ + 1]
          /\ SetTimer(e, timers \ {t}, None, retries[e] + 1)
          /\ UNCHANGED owed
    /\ UNCHANGED <<available, news, allHandle>>

\* schedule_reconcile_all() with a delay; without one it does nothing.
ScheduleReconcileAll ==
    /\ Enabled
    /\ \E h \in Fresh :
          /\ timers' = Cancel(timers, allHandle) \union {Timer(h, All)}
          /\ allHandle' = h
    /\ UNCHANGED <<available, news, perEntity, retries, owed>>

\* on_reconcile_all_fired(): the automation reapplies every light.
OnReconcileAllFired(t) ==
    /\ t \in timers
    /\ t.entity = All
    /\ timers' = timers \ {t}
    /\ allHandle' = None
    /\ UNCHANGED <<available, news, perEntity, retries, owed>>

\* Mutation: the timer of the reconcile-all request is not cancelled.
ResetForgetsAll ==
    /\ timers' = {t \in timers : \A e \in Entities : t.handle # perEntity[e]}
    /\ perEntity' = [e \in Entities |-> None]
    /\ allHandle' = None
    /\ retries' = [e \in Entities |-> 0]
    /\ owed' = [e \in Entities |-> FALSE]
    /\ UNCHANGED <<available, news>>

\* Cancels every timer the reconciler holds and forgets the attempts; recoveries
\* announced so far are given up with them.
Reset ==
    /\ timers' = {t \in timers :
                    t.handle # allHandle /\ \A e \in Entities : t.handle # perEntity[e]}
    /\ perEntity' = [e \in Entities |-> None]
    /\ allHandle' = None
    /\ retries' = [e \in Entities |-> 0]
    /\ owed' = [e \in Entities |-> FALSE]
    /\ UNCHANGED <<available, news>>

\* External: an entity comes or goes, and its change event is on its way.
Change(e) ==
    /\ Len(news[e]) < NewsBound
    /\ available' = [available EXCEPT ![e] = ~@]
    /\ news' = [news EXCEPT ![e] = Append(@, ~available[e])]
    /\ owed' = [owed EXCEPT ![e] = ~available[e]]
    /\ UNCHANGED <<timers, ownVars>>

-----------------------------------------------------------------------------
ReconcilerNext ==
    \/ \E e \in Entities : Schedule(e) \/ OnEntityChange(e) \/ Change(e)
    \/ \E t \in timers : OnTimerFired(t) \/ OnReconcileAllFired(t)
    \/ ScheduleReconcileAll
    \/ Reset

ReconcilerSpec == ReconcilerInit /\ [][ReconcilerNext]_reconcilerVars

-----------------------------------------------------------------------------
(* Properties *)

\* The timers in the scheduler are exactly the ones the reconciler can cancel,
\* one per entity at most: no timer escapes reset(), none fires on behalf of an
\* attempt that was replaced, and no handle is stale.
HandlesAreTimers ==
    timers = {Timer(perEntity[e], e) : e \in {x \in Entities : perEntity[x] # None}}
                \union (IF allHandle = None THEN {} ELSE {Timer(allHandle, All)})

\* The retries of an entity are limited, and one that is given up has no timer
\* left that could revive it (schedule, on_timer_fired).
GivenUpIsIdle ==
    \A e \in Entities :
        /\ retries[e] <= MaxRetries
        /\ retries[e] = MaxRetries => perEntity[e] = None

\* An entity that recovers before its retries are used up is reconciled, unless
\* it goes away again, it is given up, or the automation keeps asking for another
\* attempt faster than the settle time.
RecoveryIsReconciled ==
    \A e \in Entities :
        \/ []<><<Schedule(e)>>_reconcilerVars
        \/ (owed[e] /\ retries[e] < MaxRetries) ~> (~owed[e] \/ retries[e] = MaxRetries)

\* An entity that recovers for good is reconciled, however long it was away.
\* It is not: the retries stay used up until someone calls reset().
EveryRecoveryIsReconciled ==
    \A e \in Entities :
        \/ []<><<Schedule(e)>>_reconcilerVars
        \/ owed[e] ~> ~owed[e]
=============================================================================
