---------------------------- MODULE LightingProofs ----------------------------
(***************************************************************************)
(* What holds of the lights, their actuator and an overlay for any number  *)
(* of lights, any targets and any limits.                                  *)
(*                                                                         *)
(* The invariant adds to the types that the snapshot an overlay holds is   *)
(* the one that was taken when it was first entered, and that there is     *)
(* none without an overlay.                                                *)
(*                                                                         *)
(* A light that has come to its target stays there while it is left alone. *)
(***************************************************************************)
EXTENDS Lighting, TLAPS

Shown(l) == OnStates(l) \union {Off, Gone}

\* The variables that are functions of the lights.
Shapes ==
    /\ lamp = [l \in Lights |-> lamp[l]]
    /\ order = [l \in Lights |-> order[l]]
    /\ plan = [l \in Lights |-> plan[l]]
    /\ sinceWrite = [l \in Lights |-> sinceWrite[l]]
    /\ snapshots = [l \in Lights |-> snapshots[l]]

LampsOK == \A l \in Lights : lamp[l] \in Shown(l)
OrdersOK == \A l \in Lights : order[l] \in Orders \union {NoOrder}
ActuatorOK ==
    /\ \A l \in Lights : plan[l] \in Targets[l] /\ sinceWrite[l] \in 0..PerLight
    /\ sinceApply \in 0..MinApply
SnapshotsOK ==
    /\ active \in BOOLEAN
    /\ \A l \in Lights : snapshots[l] \in Shown(l) \union {NoSnapshot}

\* The snapshot is the first one.
FirstSnapshot == before = snapshots

IInv == Shapes /\ LampsOK /\ OrdersOK /\ ActuatorOK /\ SnapshotsOK /\ FirstSnapshot

-----------------------------------------------------------------------------
(* Lamps and commands *)

\* What a light may show has the attributes that it has.
LEMMA ShownAttributes ==
    ASSUME NEW l \in Lights, NEW s \in OnStates(l)
    PROVE  /\ s.power = "on" /\ s.bri \in Nat /\ s.ct \in Nat
           /\ Brightness[l] # {} => s.bri \in Brightness[l] /\ s.bri # 0
           /\ Brightness[l] = {} => s.bri = 0
           /\ ColourTemp[l] # {} => s.ct \in ColourTemp[l] /\ s.ct # 0
           /\ ColourTemp[l] = {} => s.ct = 0
           /\ s = [power |-> "on", bri |-> s.bri, ct |-> s.ct]
BY LampsAssumption DEF OnStates, OrZero

LEMMA CommandsAreOrders ==
    ASSUME NEW b \in Nat, NEW c \in Nat
    PROVE  TurnOn(b, c) \in Orders /\ TurnOff \in Orders
BY DEF TurnOn, TurnOff, Orders

LEMMA OutcomesAreShown ==
    ASSUME NEW l \in Lights, NEW o
    PROVE  Outcomes(l, o) \subseteq Shown(l)
BY DEF Outcomes, Shown

\* The command that restores a snapshot leaves the light no other choice.
LEMMA RestoringIsExact ==
    ASSUME NEW l \in Lights, LampsOK, SnapshotsOK, snapshots[l] \notin {NoSnapshot, Gone}
    PROVE  Restored(l) \in Orders /\ Outcomes(l, Restored(l)) = {snapshots[l]}
<1>1. CASE snapshots[l] = Off
  BY <1>1 DEF Restored, TurnOff, Orders, Outcomes
<1>2. CASE snapshots[l] # Off
  <2> DEFINE s == snapshots[l]
             o == TurnOn(s.bri, s.ct)
  <2>1. s \in OnStates(l)
    BY <1>2 DEF SnapshotsOK, Shown
  <2>2. Restored(l) = o
    BY <1>2 DEF Restored
  <2>3. o \in Orders /\ o.on = TRUE /\ o.bri = s.bri /\ o.ct = s.ct
    BY <2>1, ShownAttributes DEF TurnOn, Orders
  <2>4. ~(~o.on \/ (Brightness[l] # {} /\ o.bri = 0))
    BY <2>1, <2>3, ShownAttributes
  <2>5. s \in Outcomes(l, o)
    <3>1. ASSUME s.ct = 0, lamp[l].power = "on" PROVE lamp[l].ct = 0
      <4>1. lamp[l] \in OnStates(l)
        BY <3>1 DEF LampsOK, Shown, Off, Gone
      <4> QED
        BY <2>1, <3>1, <4>1, ShownAttributes
    <3> QED
      BY <2>1, <2>3, <2>4, <3>1, ShownAttributes DEF Outcomes
  <2>6. ASSUME NEW t \in Outcomes(l, o) PROVE t = s
    <3>1. t \in OnStates(l) /\ (Brightness[l] # {} => t.bri = s.bri)
          /\ (s.ct # 0 /\ ColourTemp[l] # {} => t.ct = s.ct)
      BY <2>3, <2>4, <2>6 DEF Outcomes
    <3>2. t.bri = s.bri /\ t.ct = s.ct
      BY <2>1, <3>1, ShownAttributes
    <3> QED
      BY <2>1, <3>1, <3>2, ShownAttributes
  <2> QED
    BY <2>2, <2>3, <2>5, <2>6
<1> QED
  BY <1>1, <1>2

-----------------------------------------------------------------------------
(* The invariant *)

LEMMA InitIInv == Init => IInv
<1> SUFFICES ASSUME Init PROVE IInv
  OBVIOUS
<1> USE DEF Init, LampInit, ActuatorInit, OverlayInit
<1>1. Shapes /\ FirstSnapshot
  BY DEF Shapes, FirstSnapshot
<1>2. LampsOK /\ OrdersOK /\ SnapshotsOK
  BY DEF LampsOK, OrdersOK, SnapshotsOK, Shown
<1>3. ActuatorOK
  BY ActuatorAssumption DEF ActuatorOK
<1> QED
  BY <1>1, <1>2, <1>3 DEF IInv

\* The actuator.
LEMMA ApplyKeeps ==
    ASSUME IInv, NEW S \in Lists, Apply(S), UNCHANGED overlayVars
    PROVE  IInv'
<1> USE DEF Apply, overlayVars
<1>1. \A l \in Writes(S) : Command(plan[l]) \in Orders
  <2> SUFFICES ASSUME NEW l \in Lights, plan[l] \in [on : BOOLEAN, bri : Nat, ct : Nat]
               PROVE  Command(plan[l]) \in Orders
    BY ActuatorAssumption, LightingAssumption DEF IInv, ActuatorOK, Writes
  <2> QED
    BY CommandsAreOrders DEF Command
<1>2. OrdersOK'
  BY <1>1 DEF IInv, OrdersOK
<1>3. ActuatorOK'
  BY ActuatorAssumption DEF IInv, ActuatorOK
<1>4. (LampsOK /\ SnapshotsOK /\ FirstSnapshot /\ Shapes)'
  BY DEF IInv, LampsOK, SnapshotsOK, FirstSnapshot, Shapes, Shown
<1> QED
  BY <1>2, <1>3, <1>4 DEF IInv

LEMMA ActuatorKeeps ==
    ASSUME IInv, ResetActuator \/ Tick \/ \E l \in Lights : Replan(l), UNCHANGED overlayVars
    PROVE  IInv'
<1> USE DEF overlayVars, lampVars
<1>1. CASE ResetActuator
  BY <1>1, ActuatorAssumption
  DEF ResetActuator, IInv, Shapes, LampsOK, OrdersOK, ActuatorOK, SnapshotsOK,
      FirstSnapshot, Shown
<1>2. CASE Tick
  BY <1>2, ActuatorAssumption
  DEF Tick, IInv, Shapes, LampsOK, OrdersOK, ActuatorOK, SnapshotsOK,
      FirstSnapshot, Shown
<1>3. ASSUME NEW l \in Lights, Replan(l) PROVE IInv'
  BY <1>3
  DEF Replan, IInv, Shapes, LampsOK, OrdersOK, ActuatorOK, SnapshotsOK,
      FirstSnapshot, Shown
<1> QED
  BY <1>1, <1>2, <1>3

\* The overlay.
LEMMA OverlayKeeps ==
    ASSUME IInv,
           \/ \E S \in Rooms, skip \in BOOLEAN : Enter(S, skip)
           \/ \E restore \in BOOLEAN : Exit(restore)
           \/ \E l \in Lights, effect \in Effects : Show(l, effect),
           UNCHANGED actuatorVars
    PROVE  IInv'
<1> USE DEF actuatorVars, lampVars, overlayVars
<1>1. ASSUME NEW S \in Rooms, NEW skip \in BOOLEAN, Enter(S, skip) PROVE IInv'
  BY <1>1
  DEF Enter, SnapshotOf, IInv, Shapes, LampsOK, OrdersOK, ActuatorOK, SnapshotsOK,
      FirstSnapshot, Shown
<1>2. ASSUME NEW restore \in BOOLEAN, Exit(restore) PROVE IInv'
  <2>1. \A l \in Lights : Restored(l) \in Orders \union {NoOrder}
    BY RestoringIsExact DEF Restored, IInv, OrdersOK
  <2>2. OrdersOK'
    BY <1>2, <2>1 DEF Exit, IInv, OrdersOK
  <2>3. (Shapes /\ LampsOK /\ ActuatorOK /\ SnapshotsOK /\ FirstSnapshot)'
    BY <1>2
    DEF Exit, IInv, Shapes, LampsOK, ActuatorOK, SnapshotsOK, FirstSnapshot, Shown
  <2> QED
    BY <2>2, <2>3 DEF IInv
<1>3. ASSUME NEW l \in Lights, NEW effect \in Effects, Show(l, effect) PROVE IInv'
  BY <1>3, OverlayAssumption
  DEF Show, IInv, Shapes, LampsOK, OrdersOK, Orders, ActuatorOK, SnapshotsOK,
      FirstSnapshot, Shown
<1> QED
  BY <1>1, <1>2, <1>3

\* The lights.
LEMMA LampsKeep ==
    ASSUME IInv, \E l \in Lights : Obey(l) \/ Lose(l) \/ Touch(l),
           UNCHANGED <<actuatorVars, overlayVars>>
    PROVE  IInv'
<1> PICK l \in Lights : Obey(l) \/ Lose(l) \/ Touch(l)
  OBVIOUS
<1> USE DEF actuatorVars, overlayVars
<1>1. \/ UNCHANGED lamp
      \/ \E s \in Shown(l) : lamp' = [lamp EXCEPT ![l] = s]
  BY OutcomesAreShown DEF Obey, Lose, Touch, Shown
<1>2. UNCHANGED order \/ order' = [order EXCEPT ![l] = NoOrder]
  BY DEF Obey, Lose, Touch
<1>3. LampsOK' /\ OrdersOK'
  BY <1>1, <1>2 DEF IInv, Shapes, LampsOK, OrdersOK, Shown
<1>4. (Shapes /\ ActuatorOK /\ SnapshotsOK /\ FirstSnapshot)'
  BY <1>1, <1>2 DEF IInv, Shapes, ActuatorOK, SnapshotsOK, FirstSnapshot, Shown
<1> QED
  BY <1>3, <1>4 DEF IInv

LEMMA StepIInv == IInv /\ [Next]_vars => IInv'
<1>1. ASSUME IInv, UNCHANGED vars PROVE IInv'
  BY <1>1
  DEF vars, lampVars, actuatorVars, overlayVars, IInv, Shapes, LampsOK, OrdersOK,
      ActuatorOK, SnapshotsOK, FirstSnapshot, Shown
<1>2. ASSUME IInv, Next PROVE IInv'
  BY <1>2, ApplyKeeps, ActuatorKeeps, OverlayKeeps, LampsKeep DEF Next
<1> QED
  BY <1>1, <1>2

LEMMA Invariant == Spec => []IInv
BY InitIInv, StepIInv, PTL DEF Spec

-----------------------------------------------------------------------------
(* The theorems *)

\* Every reachable state of the lighting is well typed.
THEOREM TypeCorrect == Spec => []TypeOK
<1>1. IInv => TypeOK
  BY DEF IInv, TypeOK, LampsOK, OrdersOK, ActuatorOK, SnapshotsOK, Shown
<1> QED
  BY <1>1, Invariant, PTL

\* Leaving an overlay commands every light back to what it was when the overlay was
\* entered (overlay.rs: exit, restore_light).
THEOREM OverlaysRestore == Spec => RestoresWhatWasThere
<1>1. ASSUME IInv, [Next]_vars
      PROVE  [\A l \in Lights :
                Exit(TRUE) /\ before[l] \notin {NoSnapshot, Gone}
                  => order'[l] # NoOrder /\ Outcomes(l, order'[l]) = {before[l]}]_vars
  <2> SUFFICES ASSUME NEW l \in Lights, Exit(TRUE), before[l] \notin {NoSnapshot, Gone}
               PROVE  order'[l] # NoOrder /\ Outcomes(l, order'[l]) = {before[l]}
    OBVIOUS
  <2>1. before[l] = snapshots[l]
    BY <1>1 DEF IInv, FirstSnapshot
  <2>2. order'[l] = Restored(l)
    BY DEF Exit
  <2>3. Restored(l) \in Orders /\ Outcomes(l, Restored(l)) = {before[l]}
    BY <1>1, <2>1, RestoringIsExact DEF IInv
  <2> QED
    BY <2>2, <2>3, LampsAssumption DEF Orders
<1> QED
  BY <1>1, Invariant, PTL DEF Spec, RestoresWhatWasThere

-----------------------------------------------------------------------------
(* Lights that are left alone *)

\* A light shows its target, and no command is on its way that would change that.
OnCourse(l) ==
    /\ order[l] \in {NoOrder, Command(plan[l])}
    /\ lamp[l] = Gone \/ InLine(l)

\* What the actuator compares is what a light that is left alone should show.
LEMMA MatchIsInLine ==
    ASSUME IInv, NEW l \in Lights, lamp[l] # Gone, Suits(l, plan[l])
    PROVE  Differs(l) <=> ~InLine(l)
<1> DEFINE t == plan[l]
           s == lamp[l]
<1>1. t.on \in BOOLEAN /\ t.bri \in Nat /\ t.ct \in Nat
  BY ActuatorAssumption DEF IInv, ActuatorOK
<1>2. s = Off \/ s \in OnStates(l)
  BY DEF IInv, LampsOK, Shown
<1>3. BriTol \in Nat /\ CtTol \in Nat
  BY ActuatorAssumption
<1>4. CASE ~t.on
  <2>1. Differs(l) <=> s.power = "on"
    BY <1>1, <1>4 DEF Differs
  <2>2. InLine(l) <=> s.power = "off"
    BY <1>4 DEF InLine
  <2>3. s.power = "on" <=> s.power # "off"
    BY <1>2, ShownAttributes DEF Off
  <2> QED
    BY <2>1, <2>2, <2>3
<1>5. CASE t.on /\ s = Off
  <2>1. t.on = TRUE /\ lamp[l].power # "on"
    BY <1>1, <1>5 DEF Off
  <2>2. Differs(l)
    BY <2>1 DEF Differs
  <2>3. ~InLine(l)
    BY <2>1 DEF InLine
  <2> QED
    BY <2>2, <2>3
<1>6. CASE t.on /\ s \in OnStates(l)
  <2>1. /\ s.power = "on" /\ s.bri \in Nat /\ s.ct \in Nat
        /\ Brightness[l] = {} => s.bri = 0
        /\ ColourTemp[l] # {} <=> s.ct # 0
    BY <1>6, ShownAttributes
  <2>2. Differs(l) <=> \/ Distance(s.bri, t.bri) > BriTol
                       \/ s.ct # 0 /\ Distance(s.ct, t.ct) > CtTol
    BY <1>6, <2>1 DEF Differs
  <2>3. InLine(l) <=> /\ Brightness[l] # {} => Distance(s.bri, t.bri) <= BriTol
                      /\ ColourTemp[l] # {} /\ t.ct # 0 => Distance(s.ct, t.ct) <= CtTol
    BY <1>6, <2>1 DEF InLine
  <2>4. Distance(s.bri, t.bri) \in Nat /\ Distance(s.ct, t.ct) \in Nat
    BY <1>1, <2>1 DEF Distance
  <2>5. Brightness[l] = {} => Distance(s.bri, t.bri) <= BriTol
    <3> SUFFICES ASSUME Brightness[l] = {} PROVE Distance(s.bri, t.bri) <= BriTol
      OBVIOUS
    <3>1. s.bri = 0 /\ t.bri <= BriTol
      BY <1>6, <2>1 DEF Suits, CanShow
    <3> QED
      BY <1>1, <3>1 DEF Distance
  <2>6. ColourTemp[l] # {} => t.ct # 0
    BY <1>6 DEF Suits, CanShow
  <2> HIDE DEF s, t
  <2> QED
    BY <1>3, <2>1, <2>2, <2>3, <2>4, <2>5, <2>6
<1> QED
  BY <1>2, <1>4, <1>5, <1>6

\* The command for a target brings the light to it.
LEMMA CommandBringsInLine ==
    ASSUME IInv, NEW l \in Lights, Suits(l, plan[l]),
           NEW s \in Outcomes(l, Command(plan[l])), lamp'[l] = s, plan'[l] = plan[l]
    PROVE  InLine(l)'
<1> DEFINE t == plan[l]
<1>1. t.on \in BOOLEAN /\ t.bri \in Nat /\ t.ct \in Nat
  BY ActuatorAssumption DEF IInv, ActuatorOK
<1>2. BriTol \in Nat /\ CtTol \in Nat
  BY ActuatorAssumption
<1>3. \A x \in Nat : Distance(x, x) = 0
  BY DEF Distance
<1>4. CASE ~t.on
  <2>1. s = Off
    BY <1>4 DEF Command, TurnOff, Outcomes
  <2>2. lamp'[l].power = "off"
    BY <2>1 DEF Off
  <2> QED
    BY <1>4, <2>2 DEF InLine
<1>5. CASE t.on
  <2> DEFINE o == TurnOn(t.bri, t.ct)
  <2>1. Command(t) = o /\ o.on = TRUE /\ o.bri = t.bri /\ o.ct = t.ct
    BY <1>1, <1>5 DEF Command, TurnOn
  <2>2. ~(~o.on \/ (Brightness[l] # {} /\ o.bri = 0))
    BY <1>5, <2>1 DEF Suits, CanShow
  <2> HIDE DEF o
  <2>3. /\ s \in OnStates(l)
        /\ Brightness[l] # {} => s.bri = t.bri
        /\ t.ct # 0 /\ ColourTemp[l] # {} => s.ct = t.ct
    BY <2>1, <2>2 DEF Outcomes
  <2>4. s.power = "on" /\ s.bri \in Nat /\ s.ct \in Nat
    BY <2>3, ShownAttributes
  <2>5. /\ Brightness[l] # {} => Distance(s.bri, t.bri) <= BriTol
        /\ ColourTemp[l] # {} /\ t.ct # 0 => Distance(s.ct, t.ct) <= CtTol
    BY <1>1, <1>2, <1>3, <2>3
  <2> QED
    BY <1>5, <2>4, <2>5 DEF InLine
<1> QED
  BY <1>4, <1>5

LEMMA QuietKeepsCourse ==
    ASSUME IInv, Quiet, NEW l \in Lights, Suits(l, plan[l]), OnCourse(l)
    PROVE  OnCourse(l)' /\ (lamp[l] # Gone => order'[l] \in {order[l], NoOrder})
<1>0. plan' = plan
  BY DEF Quiet, Apply, Tick, actuatorVars
<1>1. ASSUME NEW S \in Lists, Apply(S)
      PROVE  OnCourse(l)' /\ (lamp[l] # Gone => order'[l] \in {order[l], NoOrder})
  <2>1. lamp' = lamp /\ order'[l] = IF l \in Writes(S) THEN Command(plan[l]) ELSE order[l]
    BY <1>1 DEF Apply
  <2>2. lamp[l] # Gone => order'[l] = order[l]
    BY <2>1, MatchIsInLine DEF Writes, OnCourse
  <2>3. InLine(l)' <=> InLine(l)
    BY <1>0, <2>1 DEF InLine
  <2> QED
    BY <1>0, <2>1, <2>2, <2>3 DEF OnCourse
<1>2. ASSUME Tick
      PROVE  OnCourse(l)' /\ (lamp[l] # Gone => order'[l] \in {order[l], NoOrder})
  BY <1>2 DEF Tick, lampVars, OnCourse, InLine
<1>3. ASSUME NEW k \in Lights, Obey(k) \/ Lose(k), UNCHANGED actuatorVars
      PROVE  OnCourse(l)' /\ (lamp[l] # Gone => order'[l] \in {order[l], NoOrder})
  <2>1. order' = [order EXCEPT ![k] = NoOrder]
    BY <1>3 DEF Obey, Lose
  <2>2. order'[l] \in {order[l], NoOrder}
    BY <2>1 DEF IInv, Shapes
  <2>3. CASE lamp'[l] = lamp[l]
    <3>1. InLine(l)' <=> InLine(l)
      BY <1>0, <2>3 DEF InLine
    <3> QED
      BY <1>0, <2>2, <2>3, <3>1 DEF OnCourse
  <2>4. CASE lamp'[l] # lamp[l]
    <3>1. k = l /\ Obey(l)
      BY <1>3, <2>4 DEF Obey, Lose, IInv, Shapes
    <3>2. order[l] = Command(plan[l])
      BY <3>1 DEF Obey, OnCourse
    <3>3. PICK s \in Outcomes(l, order[l]) : lamp' = [lamp EXCEPT ![l] = s]
      BY <3>1 DEF Obey
    <3>4. lamp'[l] = s
      BY <3>3 DEF IInv, Shapes
    <3>5. InLine(l)'
      BY <1>0, <3>2, <3>4, CommandBringsInLine
    <3> QED
      BY <1>0, <2>2, <3>5 DEF OnCourse
  <2> QED
    BY <2>3, <2>4
<1> QED
  BY <1>1, <1>2, <1>3 DEF Quiet

\* A light that has come to a target that suits it stays there while it is left alone,
\* and is not commanded any more, whatever the targets of the others are.  It is what
\* Converges and Settles need besides fairness (actuator.rs: apply, should_write).
THEOREM InLineForGood ==
    Spec => [][Quiet => \A l \in Lights : Suits(l, plan[l]) /\ OnCourse(l) =>
                   /\ OnCourse(l)'
                   /\ lamp[l] # Gone => order'[l] \in {order[l], NoOrder}]_vars
<1>1. ASSUME IInv, [Next]_vars
      PROVE  [Quiet => \A l \in Lights : Suits(l, plan[l]) /\ OnCourse(l) =>
                 /\ OnCourse(l)'
                 /\ lamp[l] # Gone => order'[l] \in {order[l], NoOrder}]_vars
  BY <1>1, QuietKeepsCourse
<1> QED
  BY <1>1, Invariant, PTL DEF Spec
=============================================================================
