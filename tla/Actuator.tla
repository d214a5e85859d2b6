------------------------------ MODULE Actuator ------------------------------
(***************************************************************************)
(* The shared actuator (crates/signal-ha-lighting/src/actuator.rs).  It is *)
(* called with the intended targets over and over, compares them with what *)
(* the lights show, and commands the ones that differ by more than the     *)
(* deadband, unless it commanded anything, or that light, too recently.    *)
(*                                                                         *)
(* Times are kept as ages, up to the interval they are compared with; an   *)
(* age that reached its interval stands for any longer one, and for a      *)
(* write that never was.  A list of targets names a light once.  Left out: *)
(* last_sig and light_last_values, which no decision reads.                *)
(***************************************************************************)
EXTENDS Lamps

CONSTANTS
    Targets,        \* targets a planner may choose for a light
    BriTol,         \* config.brightness_tol
    CtTol,          \* config.ct_tol_mired
    MinApply,       \* config.min_apply_interval_s
    PerLight        \* config.per_light_min_interval_s

ASSUME ActuatorAssumption ==
    /\ \A l \in Lights : Targets[l] \subseteq [on : BOOLEAN, bri : Nat, ct : Nat]
    /\ {BriTol, CtTol, MinApply, PerLight} \subseteq Nat

VARIABLES
    plan,           \* the target of each light
    sinceApply,     \* time since last_apply_at
    sinceWrite      \* time since light_last_write

actuatorVars == <<plan, sinceApply, sinceWrite>>

ActuatorInit ==
    /\ plan \in [Lights -> UNION {Targets[l] : l \in Lights}]
    /\ \A l \in Lights : plan[l] \in Targets[l]
    /\ sinceApply = MinApply
    /\ sinceWrite = [l \in Lights |-> PerLight]

Distance(a, b) == IF a > b THEN a - b ELSE b - a

\* Mutation: only the on/off state is compared, so that a dimmed light goes unnoticed.
DiffersInPower(l) == plan[l].on # (lamp[l].power = "on")

\* should_write() without its rate limit.
Differs(l) ==
    LET t == plan[l] IN
    \/ t.on # (lamp[l].power = "on")
    \/ /\ t.on
       /\ \/ Distance(lamp[l].bri, t.bri) > BriTol
          \/ lamp[l].ct # 0 /\ Distance(lamp[l].ct, t.ct) > CtTol

\* Mutation: the colour temperature is never sent.
CommandWithoutCt(t) == IF t.on THEN TurnOn(t.bri, 0) ELSE TurnOff

\* apply_on() and apply_off()
Command(t) == IF t.on THEN TurnOn(t.bri, t.ct) ELSE TurnOff

Writes(S) == {l \in S : sinceWrite[l] >= PerLight /\ Differs(l)}

\* apply() with the targets of the lights S.
Apply(S) ==
    /\ sinceApply >= MinApply
    /\ LET W == Writes(S) IN
       /\ order' = [l \in Lights |-> IF l \in W THEN Command(plan[l]) ELSE order[l]]
       /\ sinceWrite' = [l \in Lights |-> IF l \in W THEN 0 ELSE sinceWrite[l]]
       /\ sinceApply' = IF W = {} THEN sinceApply ELSE 0
    /\ UNCHANGED <<lamp, plan>>

\* reset()
ResetActuator ==
    /\ sinceApply' = MinApply
    /\ sinceWrite' = [l \in Lights |-> PerLight]
    /\ UNCHANGED <<lampVars, plan>>

\* A planner changes its mind.
Replan(l) ==
    /\ plan' \in {[plan EXCEPT ![l] = t] : t \in Targets[l]}
    /\ UNCHANGED <<lampVars, sinceApply, sinceWrite>>

\* Time passes.
Tick ==
    /\ sinceApply' = IF sinceApply < MinApply THEN sinceApply + 1 ELSE sinceApply
    /\ sinceWrite' = [l \in Lights |->
                        IF sinceWrite[l] < PerLight THEN sinceWrite[l] + 1 ELSE sinceWrite[l]]
    /\ UNCHANGED <<lampVars, plan>>
=============================================================================
