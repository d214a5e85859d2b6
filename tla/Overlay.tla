------------------------------- MODULE Overlay -------------------------------
(***************************************************************************)
(* Temporary lighting overlays (crates/signal-ha-lighting/src/overlay.rs). *)
(* Entering an overlay takes a snapshot of the lights it will use, and     *)
(* leaving it restores them.  Moving on to another mode while an overlay   *)
(* is active either keeps the snapshot or, if the caller asks for it,      *)
(* takes a new one, of lights that the overlay has changed already.        *)
(*                                                                         *)
(* Mode names, metadata and colours other than the temperature are left    *)
(* out.  What the overlay shows is up to the automation.                   *)
(***************************************************************************)
EXTENDS Lamps

CONSTANTS
    Effects,        \* commands an automation gives while an overlay is active
    NoSnapshot

ASSUME OverlayAssumption ==
    /\ Effects \subseteq [on : BOOLEAN, bri : Nat, ct : Nat]
    /\ NoSnapshot \notin [power : {"on", "off", "unavailable"}, bri : Nat, ct : Nat]

VARIABLES
    active,         \* state.is_some()
    snapshots,      \* the snapshot of each light, if any
    before          \* history: the lights when the overlay was first entered

overlayVars == <<active, snapshots, before>>

OverlayInit ==
    /\ active = FALSE
    /\ snapshots = [l \in Lights |-> NoSnapshot]
    /\ before = [l \in Lights |-> NoSnapshot]

SnapshotOf(S) == [l \in Lights |-> IF l \in S THEN lamp[l] ELSE NoSnapshot]

\* Mutation: a transition takes a new snapshot whatever the caller asks.
EnterAlwaysSnapshots(S, skip) ==
    /\ active' = TRUE
    /\ snapshots' = SnapshotOf(S)
    /\ before' = IF ~active \/ ~skip THEN SnapshotOf(S) ELSE before
    /\ UNCHANGED lampVars

\* enter() with the entities S and skip_snapshot_if_active = skip
Enter(S, skip) ==
    /\ active' = TRUE
    /\ IF active /\ skip
       THEN UNCHANGED <<snapshots, before>>
       ELSE /\ snapshots' = SnapshotOf(S)
            /\ before' = SnapshotOf(S)
    /\ UNCHANGED lampVars

\* restore_light(): the command that brings a light back; a light that could not
\* be read when the overlay began is left as it is.
Restored(l) ==
    IF snapshots[l] \in {NoSnapshot, Gone} THEN order[l]
    ELSE IF snapshots[l] = Off THEN TurnOff
    ELSE TurnOn(snapshots[l].bri, snapshots[l].ct)

\* exit(restore); false without an active overlay
Exit(restore) ==
    /\ active
    /\ active' = FALSE
    /\ snapshots' = [l \in Lights |-> NoSnapshot]
    /\ before' = [l \in Lights |-> NoSnapshot]
    /\ order' = IF restore THEN [l \in Lights |-> Restored(l)] ELSE order
    /\ UNCHANGED lamp

\* External: the automation shows something on a light of its overlay.
Show(l, effect) ==
    /\ active
    /\ snapshots[l] # NoSnapshot
    /\ order' = [order EXCEPT ![l] = effect]
    /\ UNCHANGED <<lamp, overlayVars>>
=============================================================================
