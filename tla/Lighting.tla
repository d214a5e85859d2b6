------------------------------ MODULE Lighting ------------------------------
(***************************************************************************)
(* An automation that drives its lights with the shared actuator and now   *)
(* and then puts an overlay on top of them.  The crate leaves it to the    *)
(* automation when to call which, so the operations come in any order, and *)
(* their commands are on their way to the lights at the same time.         *)
(***************************************************************************)
EXTENDS Actuator, Overlay

CONSTANTS
    Lists,          \* the sets of lights that apply() is called with
    Rooms           \* the sets of lights that overlays are entered with

ASSUME LightingAssumption ==
    /\ Lists \subseteq SUBSET Lights /\ Lights \in Lists
    /\ Rooms \subseteq SUBSET Lights

vars == <<lampVars, actuatorVars, overlayVars>>

Orders == [on : BOOLEAN, bri : Nat, ct : Nat]

TypeOK ==
    /\ \A l \in Lights :
          /\ lamp[l] \in OnStates(l) \union {Off, Gone}
          /\ order[l] \in Orders \union {NoOrder}
          /\ plan[l] \in Targets[l]
          /\ sinceWrite[l] \in 0..PerLight
          /\ snapshots[l] \in OnStates(l) \union {Off, Gone, NoSnapshot}
    /\ sinceApply \in 0..MinApply
    /\ active \in BOOLEAN

Init == LampInit /\ ActuatorInit /\ OverlayInit

Next ==
    \/ /\ \/ \E S \in Lists : Apply(S)
          \/ ResetActuator
          \/ \E l \in Lights : Replan(l)
          \/ Tick
       /\ UNCHANGED overlayVars
    \/ /\ \/ \E S \in Rooms, skip \in BOOLEAN : Enter(S, skip)
          \/ \E restore \in BOOLEAN : Exit(restore)
          \/ \E l \in Lights, effect \in Effects : Show(l, effect)
       /\ UNCHANGED actuatorVars
    \/ /\ \E l \in Lights : Obey(l) \/ Lose(l) \/ Touch(l)
       /\ UNCHANGED <<actuatorVars, overlayVars>>

Spec == Init /\ [][Next]_vars

\* The automation applies all its targets again and again, time passes, and a
\* light that can be reached carries out its command.  The first fairness is
\* strong: a call with some of the targets may hold up one with all of them
\* through the limit they share, but not every time.
FairSpec ==
    /\ Spec
    /\ SF_vars(Apply(Lights) /\ UNCHANGED overlayVars)
    /\ WF_vars(Tick /\ UNCHANGED overlayVars)
    /\ \A l \in Lights :
          WF_vars((Obey(l) \/ Lose(l)) /\ UNCHANGED <<actuatorVars, overlayVars>>)

-----------------------------------------------------------------------------
(* Properties *)

\* Nobody but the actuator acts on the lights, and it is not reset.
Quiet ==
    /\ \/ (\E S \in Lists : Apply(S)) \/ Tick
       \/ (\E l \in Lights : Obey(l) \/ Lose(l)) /\ UNCHANGED actuatorVars
    /\ UNCHANGED overlayVars

LeftAlone == <>[][Quiet]_vars

\* The light shows its target, within the deadband of what it can show.
InLine(l) ==
    LET t == plan[l] IN
    IF ~t.on THEN lamp[l].power = "off"
    ELSE /\ lamp[l].power = "on"
         /\ Brightness[l] # {} => Distance(lamp[l].bri, t.bri) <= BriTol
         /\ ColourTemp[l] # {} /\ t.ct # 0 => Distance(lamp[l].ct, t.ct) <= CtTol

\* The target can be shown: brightness 0 turns a dimmable light off.
CanShow(l, t) == t.on /\ Brightness[l] # {} => t.bri # 0

\* The light can show the target, and has nothing the target leaves open.
Suits(l, t) ==
    /\ CanShow(l, t)
    /\ t.on => /\ Brightness[l] = {} => t.bri <= BriTol
               /\ ColourTemp[l] # {} => t.ct # 0

\* Whatever was suppressed by a rate limit, lost with a light that was gone, done
\* by hand or left behind by an overlay: once the lights are left alone, each of
\* them that can be reached comes to show its target, if that can be shown, and
\* goes on to (actuator.rs: apply, should_write).
Converges ==
    LeftAlone => \A l \in Lights :
                    <>[](lamp[l] = Gone \/ (CanShow(l, plan[l]) => InLine(l)))

\* Once the lights are left alone, the actuator stops commanding a light that is in
\* reach and that its target suits.  A light with a colour temperature is commanded
\* for ever while its target gives none, because that is compared as 0 (should_write).
Settles ==
    LeftAlone => \A l \in Lights :
                    <>[](lamp[l] # Gone /\ Suits(l, plan[l]))
                        => <>[][order'[l] \in {order[l], NoOrder}]_order

\* Leaving an overlay commands every light it took over back to what it was when
\* the overlay was entered, however many modes were passed through with the
\* snapshot kept and whatever was done to the light meanwhile.
RestoresWhatWasThere ==
    [][\A l \in Lights :
          Exit(TRUE) /\ before[l] \notin {NoSnapshot, Gone}
             => order'[l] # NoOrder /\ Outcomes(l, order'[l]) = {before[l]}]_vars

=============================================================================
