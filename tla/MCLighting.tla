----------------------------- MODULE MCLighting -----------------------------
(***************************************************************************)
(* A light with a colour temperature and a dimmable one.  The attribute of *)
(* interest has one value on the target, one within the deadband of it and *)
(* one outside.  Overlays use the former light, and the automation may     *)
(* apply the targets of both or of the latter alone.  One target of the    *)
(* former gives no temperature: it is commanded for ever.                  *)
(***************************************************************************)
EXTENDS Lighting, TLC

CONSTANTS tunable, dimmable

MCBrightness == tunable :> {3} @@ dimmable :> {2, 3, 6}
MCColourTemp == tunable :> {2, 3, 6} @@ dimmable :> {}
MCTargets == tunable :> {TurnOff, TurnOn(3, 2), TurnOn(3, 0)} @@ dimmable :> {TurnOff, TurnOn(2, 0)}
MCLists == {{dimmable}, {tunable, dimmable}}
MCRooms == {{tunable}}
MCEffects == {TurnOn(3, 6)}
=============================================================================
