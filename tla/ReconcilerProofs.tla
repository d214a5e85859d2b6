-------------------------- MODULE ReconcilerProofs --------------------------
(***************************************************************************)
(* The reconciler and the scheduler agree about the timers, and the        *)
(* retries are limited, for any number of lights and any limit.            *)
(*                                                                         *)
(* HandlesAreTimers is not inductive: a timer is cancelled by its handle,  *)
(* and that cancels no other one only because no handle is used twice.     *)
(*                                                                         *)
(* A recovery that was not reported is always on its way to be looked      *)
(* after.  That rests on the order of the change events: the newest tells  *)
(* what Home Assistant shows.                                              *)
(***************************************************************************)
EXTENDS Reconciler, TLAPS

\* No handle stands for two timers.
HandlesDistinct ==
    /\ \A e, f \in Entities : perEntity[e] = perEntity[f] /\ perEntity[e] # None => e = f
    /\ \A e \in Entities : perEntity[e] = allHandle => allHandle = None

\* HandlesAreTimers from the point of view of a timer, and of a handle.
TimersAreHeld ==
    \A t \in timers :
        \/ t.entity \in Entities /\ perEntity[t.entity] = t.handle
        \/ t.entity = All /\ allHandle = t.handle

HeldAreTimers ==
    /\ \A e \in Entities : perEntity[e] # None => Timer(perEntity[e], e) \in timers
    /\ allHandle # None => Timer(allHandle, All) \in timers

IInv == ReconcilerTypeOK /\ HandlesDistinct /\ TimersAreHeld /\ HeldAreTimers /\ GivenUpIsIdle

\* The types, without the events on their way.
Types ==
    /\ available \in [Entities -> BOOLEAN]
    /\ timers \subseteq [handle : Handles, entity : Entities \union {All}]
    /\ perEntity \in [Entities -> Handles \union {None}]
    /\ allHandle \in Handles \union {None}
    /\ retries \in [Entities -> 0..MaxRetries]
    /\ owed \in [Entities -> BOOLEAN]

News == news \in [Entities -> Seq(BOOLEAN)]

Core == Types /\ HandlesDistinct /\ TimersAreHeld /\ HeldAreTimers /\ GivenUpIsIdle

\* The invariant splits into what the timers depend on and the change events.
LEMMA IInvCore == IInv <=> Core /\ News
BY DEF IInv, Core, News, Types, ReconcilerTypeOK

\* Held handles without a timer, timers without a holder and shared handles are
\* excluded one by one; together that is HandlesAreTimers.
LEMMA CoreImplies == Core => HandlesAreTimers
<1> SUFFICES ASSUME Core PROVE HandlesAreTimers
  OBVIOUS
<1> DEFINE P == {Timer(perEntity[e], e) : e \in {x \in Entities : perEntity[x] # None}}
           A == IF allHandle = None THEN {} ELSE {Timer(allHandle, All)}
<1>1. P \union A \subseteq timers
  BY DEF Core, HeldAreTimers
<1>2. ASSUME NEW t \in timers PROVE t \in P \union A
  <2>1. t = Timer(t.handle, t.entity) /\ t.handle # None
    BY ReconcilerAssumption DEF Core, Types, Timer
  <2>2. CASE t.entity \in Entities /\ perEntity[t.entity] = t.handle
    BY <2>1, <2>2
  <2>3. CASE t.entity = All /\ allHandle = t.handle
    BY <2>1, <2>3
  <2> QED
    BY <2>2, <2>3 DEF Core, TimersAreHeld
<1> QED
  BY <1>1, <1>2 DEF HandlesAreTimers

\* Setting a timer for an entity preserves the invariant, whether the timer that
\* fired is gone already (held = None) or the old one is still to be cancelled.
LEMMA SetTimerCore ==
    ASSUME Core, NEW e \in Entities, NEW left, NEW held, NEW count \in Nat,
           \/ left = timers /\ held = perEntity[e] /\ count = retries[e]
           \/ held = None /\ left = timers \ {Timer(perEntity[e], e)},
           retries' \in [Entities -> 0..MaxRetries], retries'[e] = count,
           \A f \in Entities \ {e} : retries'[f] = retries[f],
           SetTimer(e, left, held, count),
           available' \in [Entities -> BOOLEAN], owed' \in [Entities -> BOOLEAN],
           allHandle' = allHandle
    PROVE  Core'
<1> USE ReconcilerAssumption DEF Core, Timer
<1>0. count = MaxRetries \/ count < MaxRetries
  OBVIOUS
<1>1. CASE ~(Enabled /\ count < MaxRetries)
  <2>1. timers' = left /\ perEntity' = [perEntity EXCEPT ![e] = held]
    BY <1>1 DEF SetTimer
  <2>2. CASE left = timers /\ held = perEntity[e] /\ count = retries[e]
    <3>1. timers' = timers /\ perEntity' = perEntity
      BY <2>1, <2>2 DEF Types
    <3>2. retries' = retries
      BY <2>2 DEF Types
    <3> QED
      BY <3>1, <3>2 DEF Types, HandlesDistinct, TimersAreHeld, HeldAreTimers, GivenUpIsIdle
  <2>3. CASE held = None /\ left = timers \ {Timer(perEntity[e], e)}
    <3> QED
      BY <2>1, <2>3 DEF Types, HandlesDistinct, TimersAreHeld, HeldAreTimers, GivenUpIsIdle
  <2> QED
    BY <2>2, <2>3
<1>2. CASE Enabled /\ count < MaxRetries
  <2>1. PICK h \in Fresh : /\ timers' = Cancel(left, held) \union {Timer(h, e)}
                           /\ perEntity' = [perEntity EXCEPT ![e] = h]
    BY <1>2 DEF SetTimer
  <2>2. /\ h \in Handles
        /\ \A t \in timers : t.handle # h
        /\ \A f \in Entities : perEntity[f] # h
        /\ allHandle # h
        /\ h # None
    BY <2>1 DEF Fresh, InUse
  <2>3. /\ perEntity'[e] = h
        /\ \A f \in Entities \ {e} : perEntity'[f] = perEntity[f]
    BY <2>1 DEF Types
  <2>4. /\ Cancel(left, held) \subseteq timers
        /\ \A t \in Cancel(left, held) : t.entity # e
        /\ \A t \in timers : t.entity # e => t \in Cancel(left, held)
    BY DEF Cancel, Types, TimersAreHeld, HandlesDistinct
  <2>5. Types'
    BY <2>1, <2>2, <2>4 DEF Types
  <2>6. HandlesDistinct'
    BY <2>2, <2>3 DEF HandlesDistinct
  <2>7. TimersAreHeld'
    BY <2>1, <2>3, <2>4 DEF TimersAreHeld
  <2>8. HeldAreTimers'
    BY <2>1, <2>3, <2>4 DEF HeldAreTimers
  <2>9. GivenUpIsIdle'
    BY <2>3, <1>2 DEF GivenUpIsIdle, Types
  <2> QED
    BY <2>5, <2>6, <2>7, <2>8, <2>9
<1> QED
  BY <1>1, <1>2

\* The invariant holds in a new reconciler.
LEMMA InitIInv == ReconcilerInit => IInv
BY ReconcilerAssumption
   DEF ReconcilerInit, IInv, ReconcilerTypeOK, HandlesDistinct, TimersAreHeld, HeldAreTimers, GivenUpIsIdle

\* Change events stay well-typed.
LEMMA NextNews == News /\ [ReconcilerNext]_reconcilerVars => News'
<1> SUFFICES ASSUME News, [ReconcilerNext]_reconcilerVars PROVE News'
  OBVIOUS
<1> USE DEF News
<1>1. ASSUME NEW e \in Entities, OnEntityChange(e) PROVE News'
  <2> DEFINE s == news[e]
  <2>0. s \in Seq(BOOLEAN) /\ s # << >>
    BY <1>1 DEF OnEntityChange
  <2>1. Tail(s) \in Seq(BOOLEAN)
    <3> HIDE DEF s
    <3> QED
      BY <2>0
  <2> QED
    BY <1>1, <2>1 DEF OnEntityChange
<1>2. ASSUME NEW e \in Entities, Change(e) PROVE News'
  <2>1. Append(news[e], ~available[e]) \in Seq(BOOLEAN)
    OBVIOUS
  <2> QED
    BY <1>2, <2>1 DEF Change
<1>3. ASSUME UNCHANGED news PROVE News'
  BY <1>3
<1> QED
  BY <1>1, <1>2, <1>3
  DEF ReconcilerNext, Schedule, OnTimerFired, OnReconcileAllFired, ScheduleReconcileAll, Reset, reconcilerVars

\* Every operation of the reconciler preserves what the timers depend on.
LEMMA NextCore == Core /\ [ReconcilerNext]_reconcilerVars => Core'
<1> SUFFICES ASSUME Core, [ReconcilerNext]_reconcilerVars PROVE Core'
  OBVIOUS
<1> USE ReconcilerAssumption
<1>t. Types
  BY DEF Core
<1>1. ASSUME NEW e \in Entities, Schedule(e) PROVE Core'
  BY <1>1, <1>t, SetTimerCore DEF Schedule, Types
<1>2. ASSUME NEW e \in Entities, OnEntityChange(e) PROVE Core'
  <2>1. CASE Head(news[e])
    <3>1. /\ SetTimer(e, timers, perEntity[e], retries[e])
          /\ UNCHANGED <<available, allHandle, retries, owed>>
      BY <1>2, <2>1 DEF OnEntityChange
    <3> QED
      BY <3>1, <1>t, SetTimerCore DEF Types
  <2>2. CASE ~Head(news[e])
    BY <1>2, <2>2 DEF OnEntityChange, Core, Types, HandlesDistinct, TimersAreHeld,
                      HeldAreTimers, GivenUpIsIdle
  <2> QED
    BY <2>1, <2>2
<1>3. ASSUME NEW e \in Entities, Change(e) PROVE Core'
  BY <1>3 DEF Change, ownVars, Core, Types, HandlesDistinct, TimersAreHeld,
              HeldAreTimers, GivenUpIsIdle
<1>4. ASSUME NEW t \in timers, OnTimerFired(t) PROVE Core'
  <2> DEFINE e == t.entity
  <2>1. e \in Entities /\ t = Timer(perEntity[e], e) /\ perEntity[e] # None
    BY <1>4, <1>t DEF OnTimerFired, Core, Types, TimersAreHeld, Timer
  <2>2. retries[e] < MaxRetries
    BY <2>1, <1>t DEF Core, Types, GivenUpIsIdle
  <2>3. CASE available[e]
    <3>1. /\ retries' = [retries EXCEPT ![e] = 0]
          /\ owed' = [owed EXCEPT ![e] = FALSE]
          /\ timers' = timers \ {t}
          /\ perEntity' = [perEntity EXCEPT ![e] = None]
          /\ UNCHANGED <<available, allHandle>>
      BY <1>4, <2>3 DEF OnTimerFired
    <3> HIDE DEF e
    <3>2. Types'
      BY <3>1, <2>1, <1>t DEF Types
    <3>3. (HandlesDistinct /\ GivenUpIsIdle)'
      BY <3>1, <2>1, <1>t DEF Core, Types, HandlesDistinct, GivenUpIsIdle
    <3>4. TimersAreHeld'
      BY <3>1, <2>1, <1>t DEF Core, Types, TimersAreHeld, HandlesDistinct, Timer
    <3>5. HeldAreTimers'
      BY <3>1, <2>1, <1>t DEF Core, Types, HeldAreTimers, Timer
    <3> QED
      BY <3>2, <3>3, <3>4, <3>5 DEF Core
  <2>4. CASE ~available[e]
    <3>1. /\ retries' = [retries EXCEPT ![e] = retries[e] + 1]
          /\ SetTimer(e, timers \ {t}, None, retries[e] + 1)
          /\ UNCHANGED <<available, owed, allHandle>>
      BY <1>4, <2>4 DEF OnTimerFired
    <3>2. /\ retries' \in [Entities -> 0..MaxRetries]
          /\ retries'[e] = retries[e] + 1
          /\ retries[e] + 1 \in Nat
          /\ \A f \in Entities \ {e} : retries'[f] = retries[f]
      BY <3>1, <2>1, <2>2, <1>t DEF Types
    <3> HIDE DEF e
    <3> QED
      BY <3>1, <3>2, <2>1, <1>t, SetTimerCore DEF Types
  <2> QED
    BY <2>3, <2>4
<1>5. ASSUME NEW t \in timers, OnReconcileAllFired(t) PROVE Core'
  <2>1. t = Timer(allHandle, All)
    BY <1>5, <1>t DEF OnReconcileAllFired, Core, Types, TimersAreHeld, Timer
  <2> QED
    BY <1>5, <2>1 DEF OnReconcileAllFired, Core, Types, HandlesDistinct, TimersAreHeld,
                      HeldAreTimers, GivenUpIsIdle, Timer
<1>6. ASSUME ScheduleReconcileAll PROVE Core'
  BY <1>6 DEF ScheduleReconcileAll, Fresh, InUse, Cancel, Core, Types, HandlesDistinct,
              TimersAreHeld, HeldAreTimers, GivenUpIsIdle, Timer
<1>7. ASSUME Reset PROVE Core'
  <2>1. timers' = {}
    BY <1>7, <1>t DEF Reset, Core, TimersAreHeld
  <2> QED
    BY <1>7, <2>1 DEF Reset, Core, Types, HandlesDistinct, TimersAreHeld, HeldAreTimers,
                      GivenUpIsIdle
<1>8. ASSUME UNCHANGED reconcilerVars PROVE Core'
  BY <1>8 DEF reconcilerVars, ownVars, Core, Types, HandlesDistinct, TimersAreHeld,
              HeldAreTimers, GivenUpIsIdle
<1> QED
  BY <1>1, <1>2, <1>3, <1>4, <1>5, <1>6, <1>7, <1>8 DEF ReconcilerNext

\* The inductive invariant of the reconciler.
THEOREM Inductive == ReconcilerSpec => []IInv
<1>1. IInv /\ [ReconcilerNext]_reconcilerVars => IInv'
  <2> SUFFICES ASSUME IInv, [ReconcilerNext]_reconcilerVars PROVE IInv'
    OBVIOUS
  <2>1. Core' /\ News'
    BY IInvCore, NextCore, NextNews
  <2> QED
    BY <2>1 DEF IInv, Core, News, Types, ReconcilerTypeOK
<1> QED
  BY <1>1, InitIInv, PTL DEF ReconcilerSpec

\* Every reachable state of the reconciler has the types of ReconcilerTypeOK; in particular
\* the attempts counted for an entity never exceed max_retries.
THEOREM TypeCorrect == ReconcilerSpec => []ReconcilerTypeOK
<1>1. IInv => ReconcilerTypeOK
  BY DEF IInv
<1> QED
  BY <1>1, Inductive, PTL

\* The timers in the scheduler are exactly those the reconciler holds.
THEOREM TimersAreExactlyTheHandles == ReconcilerSpec => []HandlesAreTimers
<1>1. IInv => HandlesAreTimers
  BY IInvCore, CoreImplies
<1> QED
  BY <1>1, Inductive, PTL

\* An entity never has more failed attempts than allowed, and none is pending
\* once they are used up.
THEOREM RetriesAreLimited == ReconcilerSpec => []GivenUpIsIdle
<1>1. IInv => GivenUpIsIdle
  BY DEF IInv
<1> QED
  BY <1>1, Inductive, PTL

-----------------------------------------------------------------------------
(* Recoveries *)

\* The newest event on its way tells what Home Assistant shows.
NewsIsCurrent ==
    \A e \in Entities : news[e] # << >> => news[e][Len(news[e])] = available[e]

\* A light that recovered and was not reported ready since is there, and will be
\* looked after: the event is on its way or the timer is set, unless the retries
\* are used up.
NoRecoveryIsForgotten ==
    Enabled => \A e \in Entities : owed[e] =>
        /\ available[e]
        /\ news[e] # << >> \/ perEntity[e] # None \/ retries[e] = MaxRetries

\* Setting a timer leaves one, unless the retries are used up, and touches no other
\* entity.
LEMMA SetTimerLeavesTimer ==
    ASSUME Types, NEW e \in Entities, NEW left, NEW held, NEW count \in 0..MaxRetries,
           SetTimer(e, left, held, count)
    PROVE  /\ Enabled /\ count # MaxRetries => perEntity'[e] # None
           /\ perEntity'[e] \in {held} \union Handles
           /\ \A f \in Entities \ {e} : perEntity'[f] = perEntity[f]
<1>1. CASE Enabled /\ count < MaxRetries
  <2>1. PICK h \in Fresh : perEntity' = [perEntity EXCEPT ![e] = h]
    BY <1>1 DEF SetTimer
  <2>2. h \in Handles /\ h # None
    BY ReconcilerAssumption DEF Fresh
  <2> QED
    BY <2>1, <2>2 DEF Types
<1>2. CASE ~(Enabled /\ count < MaxRetries)
  <2>1. perEntity' = [perEntity EXCEPT ![e] = held]
    BY <1>2 DEF SetTimer
  <2>2. ~(Enabled /\ count # MaxRetries)
    BY <1>2, ReconcilerAssumption
  <2> QED
    BY <2>1, <2>2 DEF Types
<1> QED
  BY <1>1, <1>2

LEMMA NextNewsIsCurrent == IInv /\ NewsIsCurrent /\ [ReconcilerNext]_reconcilerVars => NewsIsCurrent'
<1> SUFFICES ASSUME IInv, NewsIsCurrent, [ReconcilerNext]_reconcilerVars PROVE NewsIsCurrent'
  OBVIOUS
<1>t. News /\ Types
  BY IInvCore DEF Core
<1>1. ASSUME NEW e \in Entities, OnEntityChange(e) PROVE NewsIsCurrent'
  <2> DEFINE s == news[e]
             t == Tail(s)
  <2>1. s \in Seq(BOOLEAN) /\ s # << >> /\ news' = [news EXCEPT ![e] = t]
        /\ available' = available
    BY <1>1, <1>t DEF OnEntityChange, News
  <2>2. s[Len(s)] = available[e]
    BY <2>1 DEF NewsIsCurrent
  <2> HIDE DEF s
  <2>3. t # << >> => t[Len(t)] = s[Len(s)]
    BY <2>1
  <2> HIDE DEF t
  <2> QED
    BY <1>t, <2>1, <2>2, <2>3 DEF NewsIsCurrent, News
<1>2. ASSUME NEW e \in Entities, Change(e) PROVE NewsIsCurrent'
  <2> DEFINE s == news[e]
             t == Append(s, ~available[e])
  <2>1. s \in Seq(BOOLEAN) /\ news' = [news EXCEPT ![e] = t]
        /\ available' = [available EXCEPT ![e] = ~available[e]]
    BY <1>2, <1>t DEF Change, News
  <2> HIDE DEF s
  <2>2. t[Len(t)] = ~available[e]
    BY <2>1
  <2> HIDE DEF t
  <2>3. available'[e] = ~available[e] /\ \A f \in Entities \ {e} : available'[f] = available[f]
    BY <1>t, <2>1 DEF Types
  <2>4. news'[e] = t /\ \A f \in Entities \ {e} : news'[f] = news[f]
    BY <1>t, <2>1 DEF News
  <2> QED
    BY <2>2, <2>3, <2>4 DEF NewsIsCurrent
<1>3. ASSUME UNCHANGED <<available, news>> PROVE NewsIsCurrent'
  BY <1>3 DEF NewsIsCurrent
<1> QED
  BY <1>1, <1>2, <1>3
  DEF ReconcilerNext, Schedule, OnTimerFired, OnReconcileAllFired, ScheduleReconcileAll, Reset, reconcilerVars

\* By an entity's own timer, its own event or a change of its own the obligation is met
\* or handed on; the rest leaves the entity alone or gives everything up.
LEMMA NextRecoveries ==
    IInv /\ NewsIsCurrent /\ NoRecoveryIsForgotten /\ [ReconcilerNext]_reconcilerVars => NoRecoveryIsForgotten'
<1> SUFFICES ASSUME IInv, NewsIsCurrent, NoRecoveryIsForgotten, [ReconcilerNext]_reconcilerVars, Enabled,
                    NEW f \in Entities, owed'[f]
             PROVE  /\ available'[f]
                    /\ news'[f] # << >> \/ perEntity'[f] # None \/ retries'[f] = MaxRetries
  BY DEF NoRecoveryIsForgotten
<1> DEFINE Kept == /\ available'[f]
                   /\ news'[f] # << >> \/ perEntity'[f] # None \/ retries'[f] = MaxRetries
           Before == /\ available[f]
                     /\ news[f] # << >> \/ perEntity[f] # None \/ retries[f] = MaxRetries
<1>t. News /\ Types /\ TimersAreHeld
  BY IInvCore DEF Core
<1>b. owed[f] => Before
  BY DEF NoRecoveryIsForgotten
<1>0. \A e \in Entities : retries[e] \in 0..MaxRetries
  BY <1>t DEF Types
<1>1. ASSUME NEW e \in Entities, Schedule(e) PROVE Kept
  <2>1. /\ e # f => perEntity'[f] = perEntity[f]
        /\ retries[e] # MaxRetries => perEntity'[e] # None
    BY <1>0, <1>1, <1>t, SetTimerLeavesTimer DEF Schedule
  <2> QED
    BY <1>1, <1>b, <2>1 DEF Schedule
<1>2. ASSUME NEW e \in Entities, OnEntityChange(e) PROVE Kept
  <2>1. owed' = owed /\ available' = available /\ retries' = retries
        /\ news[e] # << >> /\ news' = [news EXCEPT ![e] = Tail(news[e])]
    BY <1>2 DEF OnEntityChange
  <2>2. CASE e # f
    <3>1. news'[f] = news[f]
      BY <1>t, <2>1, <2>2 DEF News
    <3>2. perEntity'[f] = perEntity[f]
      <4>1. CASE Head(news[e])
        BY <1>0, <1>2, <1>t, <2>2, <4>1, SetTimerLeavesTimer DEF OnEntityChange
      <4>2. CASE ~Head(news[e])
        BY <1>2, <4>2 DEF OnEntityChange
      <4> QED
        BY <4>1, <4>2
    <3> QED
      BY <1>b, <2>1, <3>1, <3>2
  <2>3. CASE e = f
    <3> DEFINE s == news[e]
    <3>1. s \in Seq(BOOLEAN) /\ s # << >> /\ news'[e] = Tail(s) /\ s[Len(s)] = available[e]
      BY <1>t, <2>1 DEF News, NewsIsCurrent
    <3>2. available[e]
      BY <1>b, <2>1, <2>3
    <3> HIDE DEF s
    <3>3. Tail(s) = << >> => Head(s) = s[Len(s)]
      BY <3>1
    <3>4. ASSUME Tail(s) = << >>, retries[e] # MaxRetries PROVE perEntity'[e] # None
      <4>1. Head(s)
        BY <3>1, <3>2, <3>3, <3>4
      <4>2. SetTimer(e, timers, perEntity[e], retries[e])
        BY <1>2, <4>1 DEF OnEntityChange, s
      <4> QED
        BY <1>0, <1>t, <3>4, <4>2, SetTimerLeavesTimer
    <3> QED
      BY <2>1, <2>3, <3>1, <3>2, <3>4
  <2> QED
    BY <2>2, <2>3
<1>3. ASSUME NEW e \in Entities, Change(e) PROVE Kept
  <2>1. /\ available' = [available EXCEPT ![e] = ~available[e]]
        /\ news' = [news EXCEPT ![e] = Append(news[e], ~available[e])]
        /\ owed' = [owed EXCEPT ![e] = ~available[e]]
        /\ UNCHANGED <<perEntity, retries>>
    BY <1>3 DEF Change, ownVars
  <2>2. CASE e # f
    <3>1. available'[f] = available[f] /\ news'[f] = news[f] /\ owed'[f] = owed[f]
      BY <1>t, <2>1, <2>2 DEF Types, News
    <3> QED
      BY <1>b, <2>1, <3>1
  <2>3. CASE e = f
    <3>1. available'[f] = ~available[f] /\ owed'[f] = ~available[f]
      BY <1>t, <2>1, <2>3 DEF Types
    <3>2. news'[f] = Append(news[f], ~available[f])
      BY <1>t, <2>1, <2>3 DEF News
    <3>3. news'[f] # << >>
      <4>1. news[f] \in Seq(BOOLEAN)
        BY <1>t DEF News
      <4> QED
        BY <3>2, <4>1
    <3> QED
      BY <3>1, <3>3
  <2> QED
    BY <2>2, <2>3
<1>4. ASSUME NEW t \in timers, OnTimerFired(t) PROVE Kept
  <2> DEFINE e == t.entity
  <2>1. e \in Entities /\ UNCHANGED <<available, news>>
    BY <1>4, <1>t DEF OnTimerFired, Types
  <2>2. CASE available[e]
    <3>1. /\ retries' = [retries EXCEPT ![e] = 0]
          /\ owed' = [owed EXCEPT ![e] = FALSE]
          /\ perEntity' = [perEntity EXCEPT ![e] = None]
      BY <1>4, <2>2 DEF OnTimerFired
    <3> HIDE DEF e
    <3>2. e # f
      BY <1>t, <2>1, <3>1 DEF Types
    <3>3. retries'[f] = retries[f] /\ owed'[f] = owed[f] /\ perEntity'[f] = perEntity[f]
      BY <1>t, <2>1, <3>1, <3>2 DEF Types
    <3> QED
      BY <1>b, <2>1, <3>3
  <2>3. CASE ~available[e]
    <3>1. /\ retries' = [retries EXCEPT ![e] = retries[e] + 1]
          /\ SetTimer(e, timers \ {t}, None, retries[e] + 1)
          /\ owed' = owed
      BY <1>4, <2>3 DEF OnTimerFired
    <3>2. e # f /\ owed[f]
      BY <1>b, <2>3, <3>1
    <3>3. retries[e] + 1 \in 0..MaxRetries
      <4>1. perEntity[e] = t.handle /\ t.handle # None
        BY <1>4, <1>t, ReconcilerAssumption DEF OnTimerFired, Types, TimersAreHeld
      <4> HIDE DEF e
      <4>2. retries[e] # MaxRetries
        BY <2>1, <4>1 DEF IInv, GivenUpIsIdle
      <4> QED
        BY <1>0, <2>1, <4>2, ReconcilerAssumption
    <3> HIDE DEF e
    <3>4. retries'[f] = retries[f]
      BY <1>t, <2>1, <3>1, <3>2 DEF Types
    <3>5. perEntity'[f] = perEntity[f]
      BY <1>t, <2>1, <3>1, <3>2, <3>3, SetTimerLeavesTimer
    <3> QED
      BY <1>b, <2>1, <3>2, <3>4, <3>5
  <2> QED
    BY <2>2, <2>3
<1>5. ASSUME Reset PROVE Kept
  BY <1>5 DEF Reset
<1>6. ASSUME UNCHANGED <<available, news, perEntity, retries, owed>> PROVE Kept
  BY <1>6, <1>b
<1> QED
  BY <1>1, <1>2, <1>3, <1>4, <1>5, <1>6
  DEF ReconcilerNext, OnReconcileAllFired, ScheduleReconcileAll, reconcilerVars, ownVars

\* No recovery is forgotten, however often the light comes and goes while its events
\* are on their way and its timer runs: what RecoveryIsReconciled needs besides
\* fairness (reconcile.rs: on_entity_change, on_timer_fired, schedule).
THEOREM RecoveriesAreLookedAfter == ReconcilerSpec => []NoRecoveryIsForgotten
<1>1. ReconcilerInit => NewsIsCurrent /\ NoRecoveryIsForgotten
  BY DEF ReconcilerInit, NewsIsCurrent, NoRecoveryIsForgotten
<1>2. IInv /\ NewsIsCurrent /\ NoRecoveryIsForgotten /\ [ReconcilerNext]_reconcilerVars
      => NewsIsCurrent' /\ NoRecoveryIsForgotten'
  BY NextNewsIsCurrent, NextRecoveries
<1> QED
  BY <1>1, <1>2, Inductive, PTL DEF ReconcilerSpec
=============================================================================
