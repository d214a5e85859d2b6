-------------------------------- MODULE Lamps --------------------------------
(***************************************************************************)
(* The lights as Home Assistant shows and commands them.  External: the    *)
(* lighting crate reads their state and attributes and calls turn_on and   *)
(* turn_off through its HAService traits, which the automation connects to *)
(* Home Assistant.  A call returns before the light has changed; a light   *)
(* that is gone never gets the command.  People operate the lights too.    *)
(*                                                                         *)
(* An attribute a light does not have, or does not report because it is    *)
(* off, is 0: the code reads a missing brightness as 0, and 0 is not a     *)
(* colour temperature.                                                     *)
(***************************************************************************)
EXTENDS Integers, FiniteSets

CONSTANTS
    Lights,
    Brightness,     \* brightness values of interest; {} for a light without
    ColourTemp,     \* the same for colour temperatures
    NoOrder

ASSUME LampsAssumption ==
    /\ IsFiniteSet(Lights)
    /\ Brightness \in [Lights -> SUBSET (Nat \ {0})]
    /\ ColourTemp \in [Lights -> SUBSET (Nat \ {0})]
    /\ NoOrder \notin [on : BOOLEAN, bri : Nat, ct : Nat]

VARIABLES
    lamp,           \* state and attributes of each light
    order           \* the command on its way to a light

lampVars == <<lamp, order>>

OrZero(S) == IF S = {} THEN {0} ELSE S
Off == [power |-> "off", bri |-> 0, ct |-> 0]
Gone == [power |-> "unavailable", bri |-> 0, ct |-> 0]
OnStates(l) == [power : {"on"}, bri : OrZero(Brightness[l]), ct : OrZero(ColourTemp[l])]

\* A command: a brightness or colour temperature of 0 is one that is not given,
\* except that brightness 0 turns a dimmable light off.
TurnOff == [on |-> FALSE, bri |-> 0, ct |-> 0]
TurnOn(b, c) == [on |-> TRUE, bri |-> b, ct |-> c]

LampInit ==
    /\ lamp \in [Lights -> {Off, Gone}]
    /\ order = [l \in Lights |-> NoOrder]

\* What may become of a light that carries out a command.
Outcomes(l, o) ==
    IF ~o.on \/ (Brightness[l] # {} /\ o.bri = 0) THEN {Off}
    ELSE {s \in OnStates(l) :
            /\ Brightness[l] # {} => s.bri = o.bri
            /\ o.ct # 0 /\ ColourTemp[l] # {} => s.ct = o.ct
            /\ o.ct = 0 /\ lamp[l].power = "on" => s.ct = lamp[l].ct}

Obey(l) ==
    /\ order[l] # NoOrder
    /\ lamp[l] # Gone
    /\ lamp' \in {[lamp EXCEPT ![l] = s] : s \in Outcomes(l, order[l])}
    /\ order' = [order EXCEPT ![l] = NoOrder]

Lose(l) ==
    /\ order[l] # NoOrder
    /\ lamp[l] = Gone
    /\ order' = [order EXCEPT ![l] = NoOrder]
    /\ UNCHANGED lamp

\* Someone operates the light, or it drops out, or it comes back.
Touch(l) ==
    /\ lamp' \in {[lamp EXCEPT ![l] = s] : s \in OnStates(l) \union {Off, Gone}}
    /\ UNCHANGED order
=============================================================================
